---- MODULE Spec2Model ----
(***************************************************************************)
(* Model of the moltslack coordination core: ChannelService (channels,     *)
(* membership, access rules, startup load from the Store), MessageService  *)
(* (send, gated by ChannelService.checkAccess), the relay bridge's channel *)
(* subscriptions, and the token handling of AuthService / AgentService.    *)
(*                                                                         *)
(* One server process at a time owns the in-memory maps; Restart starts a  *)
(* new process on the same Store.  Store calls are fire-and-forget and     *)
(* fail while the Store is down (storeUp = FALSE); their errors are caught *)
(* and logged.  A deployment without a Store behaves like one whose Store  *)
(* is always down.  The relay client writes to the daemon only while it is *)
(* READY.  SpecFail lets the Store and the relay connection go down and    *)
(* come back; the other specifications keep both up.                       *)
(***************************************************************************)
EXTENDS Integers, Sequences, FiniteSets, TLC

\* ---------------------------------------------------------------- bounds
MaxChannelIds == 3      \* uuids drawn for channels over all process runs
MaxMessages   == 1      \* messages sent where access rules and joins vary
MaxLedger     == 3      \* uuids drawn for messages
MaxEvents     == 1      \* edit and delete events handed to the relay
MaxTextLen    == 4
MaxCaps       == 2
MaxTicks      == 2      \* clock ticks while the ledger is exercised
MaxRuleAdds   == 1      \* addAccessRule calls over all process runs
MaxRestarts   == 1      \* process restarts
MaxClock      == 3      \* clock ticks
MaxTokens     == 3      \* distinct tokens issued
TokenLifetime == 2      \* ticks from issuedAt to expiresAt

\* ------------------------------------------------------------ value sets
None == "none"

ChannelIdPool == <<"ch1", "ch2", "ch3", "ch4", "ch5", "ch6">>
MessageIdPool == <<"m1", "m2", "m3", "m4", "m5">>

Agents       == {"a1", "a2"}
SystemAgent  == "system"
Identities   == Agents \cup {SystemAgent}
DefaultNames == {"general", "announcements"}
Names        == DefaultNames \cup {"dev"}
ChannelTypes == {"public", "private", "broadcast", "direct"}
AccessLevels == {"read", "write", "admin"}
ThreadIds    == {"t1"}
\* message texts, as sequences of characters
Texts        == {<<"h", "i">>, <<"B", "y", "e">>}
Hello        == <<"h", "i">>

AllChannelIds == {ChannelIdPool[k] : k \in 1..MaxChannelIds}

\* rules a caller may pass to addAccessRule
InputRules ==
  {[principal |-> "*", principalType |-> "all", level |-> "read"],
   [principal |-> "a1", principalType |-> "agent", level |-> "read"],
   [principal |-> "a1", principalType |-> "agent", level |-> "write"],
   [principal |-> "a2", principalType |-> "agent", level |-> "admin"],
   [principal |-> "ops", principalType |-> "role", level |-> "admin"]}

VARIABLES
  phase,                \* "constructed" | "ready": has initializeChannels run
  channels,             \* ChannelService.channels: id -> Channel
  nameIndex,            \* ChannelService.nameIndex: name -> id
  memberships,          \* ChannelService.memberships: id -> set of agents
  storeChannels,        \* Store table channels: id -> StoredChannel
  storeUp,              \* whether Store calls currently succeed
  relayReady,           \* RelayDaemonClient._state === 'READY', socket writable
  nextChannel,          \* number of channel uuids drawn so far
  ruleAdds,             \* number of addAccessRule calls so far
  restarts,             \* number of restarts so far
  relayChannelMembers,  \* RelayDaemonClient.channelMembers: id -> set
  messages,             \* MessageService.messages: id -> Message
  channelMessages,      \* MessageService.channelMessages: id -> Seq(msg id)
  threadMessages,       \* MessageService.threadMessages: id -> Seq(msg id)
  storeMessages,        \* Store table messages: id -> Message
  relaySent,            \* what the relay client wrote to the daemon, in order
  pendingLoads,         \* storage reads started by getChannelMessages
  nextMessage,          \* number of message uuids drawn so far
  clock,                \* the wall clock
  agents,               \* AgentService registry: id -> permissions, token
  issuedTokens,         \* the tokens signed with the process's secret
  presence,             \* PresenceService.presence: agent id -> Presence
  presenceSent,         \* the presence events the last presence call broadcast
  relayClient,          \* a RelayDaemonClient, its socket and its timers
  framing,              \* a FrameParser, the bytes on their way to it, its output
  last                  \* the last call and its outcome

chanVars == <<phase, channels, nameIndex, memberships, storeChannels,
              nextChannel, ruleAdds, restarts, relayChannelMembers>>
msgVars  == <<messages, channelMessages, threadMessages, storeMessages,
              relaySent, pendingLoads, nextMessage>>
authVars == <<agents, issuedTokens>>
presVars == <<presence, presenceSent>>
relayVars == <<relayClient, framing>>
vars     == <<chanVars, msgVars, authVars, presVars, relayVars, storeUp,
              relayReady, clock, last>>

Empty == [x \in {} |-> None]

\* m with key k bound to v (Map.set)
MapSet(m, k, v) == [x \in (DOMAIN m) \cup {k} |-> IF x = k THEN v ELSE m[x]]
\* a delete that removes nothing
MapDelete_noop(m, k) == m
\* m without key k (Map.delete)
MapDelete(m, k) == [x \in (DOMAIN m) \ {k} |-> m[x]]

\* optional timestamps (editedAt, deletedAt): undefined, or set to a time
Never == {}
At(t) == {t}

\* the last call made and what it returned or raised
Call(op, result) == [op |-> op, result |-> result]

\* ------------------------------------------------- ChannelService, pure

createDefaultAccessRules(type) ==
  CASE type = "public"    -> << [principal |-> "*", principalType |-> "all", level |-> "write"] >>
    [] type = "private"   -> << >>
    [] type = "broadcast" -> << [principal |-> "*", principalType |-> "all", level |-> "read"] >>
    [] type = "direct"    -> << >>
    [] OTHER              -> << >>

\* defaultAccess: input.type === ChannelType.PRIVATE ? null : 'read'
createDefaultAccess(type) == IF type = "private" THEN None ELSE "read"

matchRule_agentOnly(rule, agentId) ==
  rule.principalType = "agent" /\ rule.principal = agentId
matchRule(rule, agentId) ==
  IF rule.principalType = "all" THEN TRUE
  ELSE IF rule.principalType = "agent" /\ rule.principal = agentId THEN TRUE
  ELSE FALSE

\* an ordering in which write sits above admin
levelIndexOf_writeTop(level) ==
  CASE level = "read"  -> 0
    [] level = "admin" -> 1
    [] level = "write" -> 2
    [] OTHER           -> 0 - 1
\* ['read','write','admin'].indexOf(level)
levelIndexOf(level) ==
  CASE level = "read"  -> 0
    [] level = "write" -> 1
    [] level = "admin" -> 2
    [] OTHER           -> 0 - 1

\* satisfaction by the very same level only
accessLevelSatisfies_exact(actual, required) ==
  levelIndexOf(actual) = levelIndexOf(required)
accessLevelSatisfies(actual, required) ==
  levelIndexOf(actual) >= levelIndexOf(required)

\* a scan in which a later matching rule overrides an earlier one
RECURSIVE scanRules_lastMatch(_, _, _, _)
scanRules_lastMatch(rules, k, agentId, requiredLevel) ==
  IF k > Len(rules) THEN "nomatch"
  ELSE LET rest == scanRules_lastMatch(rules, k + 1, agentId, requiredLevel)
       IN IF rest # "nomatch" THEN rest
          ELSE IF matchRule(rules[k], agentId)
               THEN (IF accessLevelSatisfies(rules[k].level, requiredLevel)
                     THEN "grant" ELSE "deny")
               ELSE "nomatch"

\* the for loop of checkAccess from rule k on: "grant", "deny" or "nomatch"
RECURSIVE scanRules(_, _, _, _)
scanRules(rules, k, agentId, requiredLevel) ==
  IF k > Len(rules) THEN "nomatch"
  ELSE IF matchRule(rules[k], agentId)
       THEN (IF accessLevelSatisfies(rules[k].level, requiredLevel)
             THEN "grant" ELSE "deny")
       ELSE scanRules(rules, k + 1, agentId, requiredLevel)

checkAccessIn(chs, channelId, agentId, requiredLevel) ==
  IF channelId \notin DOMAIN chs THEN FALSE
  ELSE LET channel == chs[channelId]
           byRule  == scanRules(channel.accessRules, 1, agentId, requiredLevel)
       IN IF byRule # "nomatch" THEN byRule = "grant"
          ELSE IF channel.defaultAccess # None
               THEN accessLevelSatisfies(channel.defaultAccess, requiredLevel)
               ELSE FALSE

checkAccess(channelId, agentId, requiredLevel) ==
  checkAccessIn(channels, channelId, agentId, requiredLevel)

getMembers(channelId) ==
  IF channelId \in DOMAIN memberships THEN memberships[channelId] ELSE {}

isMember(channelId, agentId) == agentId \in getMembers(channelId)

\* the record create() hands to storage.saveChannel
toStoredChannel(channel) ==
  [channel EXCEPT !.defaultAccess =
     IF channel.defaultAccess = None THEN "read" ELSE channel.defaultAccess]

\* the Channel loadFromStorage builds from a stored row
\* (memberCount: stored.memberCount || 0)
fromStoredChannel(stored) ==
  [name          |-> stored.name,
   type          |-> stored.type,
   accessRules   |-> stored.accessRules,
   defaultAccess |-> stored.defaultAccess,
   memberCount   |-> IF stored.memberCount = 0 THEN 0 ELSE stored.memberCount]

\* storage.saveChannel: an upsert by id that may fail
saveChannel(store, id, channel, ok) ==
  IF ok THEN MapSet(store, id, toStoredChannel(channel)) ELSE store

\* position of a channel id in the order its uuid was drawn (= created_at order)
RECURSIVE idIndexFrom(_, _)
idIndexFrom(id, k) ==
  IF k > Len(ChannelIdPool) THEN 0
  ELSE IF ChannelIdPool[k] = id THEN k ELSE idIndexFrom(id, k + 1)
idIndex(id) == idIndexFrom(id, 1)

\* The in-memory registry together with the Store and the uuid counter, as
\* one value, so that create can be chained (createDefaultChannels).
Registry(chs, idx, mem, store, next) ==
  [channels |-> chs, nameIndex |-> idx, memberships |-> mem,
   store |-> store, next |-> next]

CurrentRegistry ==
  Registry(channels, nameIndex, memberships, storeChannels, nextChannel)

\* loadFromStorage: rows in created_at DESC order; each row overwrites
\* channels[id] and nameIndex[name], so the oldest row of a name ends up in
\* the name index.  No membership set is created for a loaded channel.
\* A failing getAllChannels is caught and loads nothing.
loadFromStorage(R, loadOk) ==
  IF ~loadOk THEN R
  ELSE LET rows == DOMAIN R.store
           named(n) == {id \in rows : R.store[id].name = n}
           oldest(n) == CHOOSE id \in named(n) :
                          \A o \in named(n) : idIndex(id) <= idIndex(o)
           loadedNames == {R.store[id].name : id \in rows}
       IN [R EXCEPT
             !.channels = [id \in (DOMAIN R.channels) \cup rows |->
                             IF id \in rows THEN fromStoredChannel(R.store[id])
                             ELSE R.channels[id]],
             !.nameIndex = [n \in (DOMAIN R.nameIndex) \cup loadedNames |->
                             IF n \in loadedNames THEN oldest(n)
                             ELSE R.nameIndex[n]]]

createRejected(R, name) == name \in DOMAIN R.nameIndex

\* a create that gives up when the Store write fails
createIn_needsStore(R, name, type, saveOk) ==
  IF ~saveOk THEN [R EXCEPT !.next = R.next + 1]
  ELSE LET id == ChannelIdPool[R.next + 1]
           channel == [name          |-> name,
                       type          |-> type,
                       accessRules   |-> createDefaultAccessRules(type),
                       defaultAccess |-> createDefaultAccess(type),
                       memberCount   |-> 0]
       IN [channels    |-> MapSet(R.channels, id, channel),
           nameIndex   |-> MapSet(R.nameIndex, name, id),
           memberships |-> MapSet(R.memberships, id, {}),
           store       |-> saveChannel(R.store, id, channel, saveOk),
           next        |-> R.next + 1]
\* create() past the duplicate-name check; saveOk is the Store write's outcome
createIn(R, name, type, saveOk) ==
  LET id == ChannelIdPool[R.next + 1]
      channel == [name          |-> name,
                  type          |-> type,
                  accessRules   |-> createDefaultAccessRules(type),
                  defaultAccess |-> createDefaultAccess(type),
                  memberCount   |-> 0]
  IN [channels    |-> MapSet(R.channels, id, channel),
      nameIndex   |-> MapSet(R.nameIndex, name, id),
      memberships |-> MapSet(R.memberships, id, {}),
      store       |-> saveChannel(R.store, id, channel, saveOk),
      next        |-> R.next + 1]

\* a bootstrap that creates #general only
createDefaultChannels_generalOnly(R, ok1, ok2) ==
  IF "general" \in DOMAIN R.nameIndex THEN R
  ELSE createIn(R, "general", "public", ok1)
\* createDefaultChannels: #general (PUBLIC) then #announcements (BROADCAST),
\* each only if its name is not in the name index
createDefaultChannels(R, ok1, ok2) ==
  LET R1 == IF "general" \in DOMAIN R.nameIndex THEN R
            ELSE createIn(R, "general", "public", ok1)
  IN IF "announcements" \in DOMAIN R1.nameIndex THEN R1
     ELSE createIn(R1, "announcements", "broadcast", ok2)

\* number of uuids createDefaultChannels draws
defaultsNeeded(R) ==
  Cardinality({"general", "announcements"} \ DOMAIN R.nameIndex)

SetRegistry(R) ==
  /\ channels' = R.channels
  /\ nameIndex' = R.nameIndex
  /\ memberships' = R.memberships
  /\ storeChannels' = R.store
  /\ nextChannel' = R.next

\* ---------------------------------------------- ChannelService, actions

initializeChannels ==
  /\ phase = "constructed"
  /\ LET L == loadFromStorage(CurrentRegistry, storeUp)
     IN /\ L.next + defaultsNeeded(L) <= MaxChannelIds
        /\ SetRegistry(createDefaultChannels(L, storeUp, storeUp))
  /\ last' = Call("initializeChannels", IF storeUp THEN "loaded" ELSE "loadFailed")
  /\ phase' = "ready"
  /\ UNCHANGED <<ruleAdds, restarts, relayChannelMembers, msgVars, storeUp, relayReady, presVars, clock, authVars, relayVars>>

create(name, type, createdBy) ==
  /\ phase = "ready"
  /\ IF createRejected(CurrentRegistry, name)
     THEN /\ last' = Call("create", "AlreadyExists")
          /\ UNCHANGED <<channels, nameIndex, memberships, storeChannels,
                         nextChannel>>
     ELSE /\ nextChannel < MaxChannelIds
          /\ SetRegistry(createIn(CurrentRegistry, name, type, storeUp))
          /\ last' = Call("create", ChannelIdPool[nextChannel + 1])
  /\ UNCHANGED <<phase, ruleAdds, restarts, relayChannelMembers, msgVars, storeUp, relayReady, presVars, clock, authVars, relayVars>>

\* join's access check: no read access
joinDenied_never(channelId, agentId) == FALSE
joinDenied(channelId, agentId) == ~checkAccess(channelId, agentId, "read")

\* channel.memberCount = members.size
withMemberCount_stale(channel, members) == channel
withMemberCount(channel, members) ==
  [channel EXCEPT !.memberCount = Cardinality(members)]

\* a join that adds the member without the access check
join_unchecked(channelId, agentId) ==
  /\ phase = "ready"
  /\ IF channelId \notin DOMAIN channels \/ channelId \notin DOMAIN memberships
     THEN /\ last' = Call("join", "false")
          /\ UNCHANGED <<channels, memberships, relayChannelMembers>>
     ELSE LET members == memberships[channelId] \cup {agentId}
          IN /\ memberships' = [memberships EXCEPT ![channelId] = members]
             /\ channels' = [channels EXCEPT
                               ![channelId] = withMemberCount(@, members)]
             /\ relayChannelMembers' =
                  MapSet(relayChannelMembers, channelId,
                         (IF channelId \in DOMAIN relayChannelMembers
                          THEN relayChannelMembers[channelId] ELSE {})
                         \cup {agentId})
             /\ last' = Call("join", "true")
  /\ UNCHANGED <<phase, nameIndex, storeChannels, nextChannel, ruleAdds,
                 restarts, msgVars, storeUp, relayReady, presVars, clock, authVars, relayVars>>
join(channelId, agentId) ==
  /\ phase = "ready"
  /\ IF channelId \notin DOMAIN channels
     THEN /\ last' = Call("join", "false")
          /\ UNCHANGED <<channels, memberships, relayChannelMembers>>
     ELSE IF joinDenied(channelId, agentId)
     THEN /\ last' = Call("join", "PermissionDenied")
          /\ UNCHANGED <<channels, memberships, relayChannelMembers>>
     ELSE IF channelId \notin DOMAIN memberships
     THEN /\ last' = Call("join", "false")
          /\ UNCHANGED <<channels, memberships, relayChannelMembers>>
     ELSE IF agentId \notin memberships[channelId]
     THEN LET members == memberships[channelId] \cup {agentId}
          IN /\ memberships' = [memberships EXCEPT ![channelId] = members]
             /\ channels' = [channels EXCEPT
                               ![channelId] = withMemberCount(@, members)]
             /\ relayChannelMembers' =
                  MapSet(relayChannelMembers, channelId,
                         (IF channelId \in DOMAIN relayChannelMembers
                          THEN relayChannelMembers[channelId] ELSE {})
                         \cup {agentId})
             /\ last' = Call("join", "true")
     ELSE /\ last' = Call("join", "true")
          /\ UNCHANGED <<channels, memberships, relayChannelMembers>>
  /\ UNCHANGED <<phase, nameIndex, storeChannels, nextChannel, ruleAdds,
                 restarts, msgVars, storeUp, relayReady, presVars, clock, authVars, relayVars>>

leave(channelId, agentId) ==
  /\ phase = "ready"
  /\ IF channelId \notin DOMAIN channels \/ channelId \notin DOMAIN memberships
     THEN /\ last' = Call("leave", "false")
          /\ UNCHANGED <<channels, memberships, relayChannelMembers>>
     ELSE IF agentId \in memberships[channelId]
     THEN LET members == memberships[channelId] \ {agentId}
          IN /\ memberships' = [memberships EXCEPT ![channelId] = members]
             /\ channels' = [channels EXCEPT
                               ![channelId] = withMemberCount(@, members)]
             /\ relayChannelMembers' =
                  IF channelId \in DOMAIN relayChannelMembers
                  THEN [relayChannelMembers EXCEPT ![channelId] = @ \ {agentId}]
                  ELSE relayChannelMembers
             /\ last' = Call("leave", "true")
     ELSE /\ last' = Call("leave", "true")
          /\ UNCHANGED <<channels, memberships, relayChannelMembers>>
  /\ UNCHANGED <<phase, nameIndex, storeChannels, nextChannel, ruleAdds,
                 restarts, msgVars, storeUp, relayReady, presVars, clock, authVars, relayVars>>

addAccessRule(channelId, rule) ==
  /\ phase = "ready"
  /\ ruleAdds < MaxRuleAdds
  /\ ruleAdds' = ruleAdds + 1
  /\ IF channelId \notin DOMAIN channels
     THEN /\ last' = Call("addAccessRule", "false")
          /\ UNCHANGED channels
     ELSE /\ channels' = [channels EXCEPT
                            ![channelId].accessRules = Append(@, rule)]
          /\ last' = Call("addAccessRule", "true")
  /\ UNCHANGED <<phase, nameIndex, memberships, storeChannels, nextChannel,
                 restarts, relayChannelMembers, msgVars, storeUp, relayReady, presVars, clock, authVars, relayVars>>

\* update(): merges the updates into channel.metadata, which the access
\* check, the membership and the Store row do not depend on
update(channelId) ==
  /\ phase = "ready"
  /\ last' = Call("update", IF channelId \in DOMAIN channels THEN "true" ELSE "false")
  /\ UNCHANGED <<chanVars, msgVars, storeUp, relayReady, presVars, clock, authVars, relayVars>>

\* delete(): the name index entry of the channel's name, the membership set
\* and the channel go; the Store row stays
delete(channelId) ==
  /\ phase = "ready"
  /\ IF channelId \notin DOMAIN channels
     THEN /\ last' = Call("delete", "false")
          /\ UNCHANGED <<channels, nameIndex, memberships>>
     ELSE /\ nameIndex' = MapDelete(nameIndex, channels[channelId].name)
          /\ memberships' = MapDelete(memberships, channelId)
          /\ channels' = MapDelete(channels, channelId)
          /\ last' = Call("delete", "true")
  /\ UNCHANGED <<phase, storeChannels, nextChannel, ruleAdds, restarts,
                 relayChannelMembers, msgVars, storeUp, relayReady, presVars, clock, authVars, relayVars>>

\* -------------------------------------------------- MessageService, pure

getById(id) == IF id \in DOMAIN messages THEN messages[id] ELSE None

getCount == Cardinality(DOMAIN messages)

\* ids.map(id => messages.get(id)).filter(Boolean).filter(m => !m.deletedAt)
RECURSIVE presentIds(_, _, _)
presentIds(msgs, ids, k) ==
  IF k > Len(ids) THEN << >>
  ELSE IF ids[k] \in DOMAIN msgs /\ msgs[ids[k]].deletedAt = Never
       THEN <<ids[k]>> \o presentIds(msgs, ids, k + 1)
       ELSE presentIds(msgs, ids, k + 1)

\* x placed into a sequence sorted by sentAt descending, behind every
\* element that is not older than x (Array.prototype.sort is stable)
RECURSIVE insertNewestFirst(_, _, _)
insertNewestFirst(msgs, sorted, x) ==
  IF sorted = << >> THEN <<x>>
  ELSE IF msgs[x].sentAt > msgs[Head(sorted)].sentAt THEN <<x>> \o sorted
       ELSE <<Head(sorted)>> \o insertNewestFirst(msgs, Tail(sorted), x)

\* the first k elements of ids, sorted by sentAt descending
RECURSIVE sortNewestFirst(_, _, _)
sortNewestFirst(msgs, ids, k) ==
  IF k = 0 THEN << >>
  ELSE insertNewestFirst(msgs, sortNewestFirst(msgs, ids, k - 1), ids[k])

\* messages.filter(m => m.sentAt < beforeMsg.sentAt)
RECURSIVE olderThan(_, _, _, _)
olderThan(msgs, ids, k, sentAt) ==
  IF k > Len(ids) THEN << >>
  ELSE IF msgs[ids[k]].sentAt < sentAt
       THEN <<ids[k]>> \o olderThan(msgs, ids, k + 1, sentAt)
       ELSE olderThan(msgs, ids, k + 1, sentAt)

\* a slice that keeps everything
slice_whole(seq, limit) == seq
\* seq.slice(0, limit)
slice(seq, limit) == SubSeq(seq, 1, IF Len(seq) < limit THEN Len(seq) ELSE limit)

\* getChannelMessages on the in-memory maps, as message ids
getChannelMessagesOf(msgs, index, channelId, limit, before) ==
  LET ids     == IF channelId \in DOMAIN index THEN index[channelId] ELSE << >>
      present == presentIds(msgs, ids, 1)
      sorted  == sortNewestFirst(msgs, present, Len(present))
      cut     == IF before # None /\ before \in DOMAIN msgs
                 THEN olderThan(msgs, sorted, 1, msgs[before].sentAt)
                 ELSE sorted
  IN slice(cut, limit)

DefaultLimit == 50

getChannelMessages(channelId) ==
  getChannelMessagesOf(messages, channelMessages, channelId, DefaultLimit, None)

\* x placed into a sequence sorted by sentAt ascending, behind every
\* element that is not newer than x
RECURSIVE insertOldestFirst(_, _, _)
insertOldestFirst(msgs, sorted, x) ==
  IF sorted = << >> THEN <<x>>
  ELSE IF msgs[x].sentAt < msgs[Head(sorted)].sentAt THEN <<x>> \o sorted
       ELSE <<Head(sorted)>> \o insertOldestFirst(msgs, Tail(sorted), x)

RECURSIVE sortOldestFirst(_, _, _)
sortOldestFirst(msgs, ids, k) ==
  IF k = 0 THEN << >>
  ELSE insertOldestFirst(msgs, sortOldestFirst(msgs, ids, k - 1), ids[k])

\* getThreadMessages: the thread's non-deleted messages, oldest first
getThreadMessages(threadId) ==
  LET ids     == IF threadId \in DOMAIN threadMessages
                 THEN threadMessages[threadId] ELSE << >>
      present == presentIds(messages, ids, 1)
  IN sortOldestFirst(messages, present, Len(present))

\* String.prototype.toLowerCase on the characters used here
toLowerCase(text) ==
  [k \in 1..Len(text) |-> IF text[k] = "B" THEN "b" ELSE text[k]]

\* String.prototype.includes
includes(text, query) ==
  \E k \in 0..(Len(text) - Len(query)) :
    \A i \in 1..Len(query) : text[k + i] = query[i]

\* the messages search(query, {channelId, senderId}) returns when its limit
\* exceeds the size of the ledger; None stands for an option not given
search(query, channelId, senderId) ==
  {m \in DOMAIN messages :
     /\ messages[m].deletedAt = Never
     /\ channelId # None => messages[m].targetId = channelId
     /\ senderId # None => messages[m].senderId = senderId
     /\ includes(toLowerCase(messages[m].text), toLowerCase(query))}

\* send's access check (a ChannelService is wired in)
sendDenied_readSuffices(targetType, targetId, senderId) ==
  targetType = "channel" /\ ~checkAccess(targetId, senderId, "read")
sendDenied(targetType, targetId, senderId) ==
  targetType = "channel" /\ ~checkAccess(targetId, senderId, "write")

\* index[key] with id pushed, creating the list when absent
pushIndex(index, key, id) ==
  MapSet(index, key, (IF key \in DOMAIN index THEN index[key] ELSE << >>) \o <<id>>)

\* broadcastMessage's dispatch by target type
relayCallFor(targetType) ==
  CASE targetType = "channel"   -> "broadcastToChannel"
    [] targetType = "agent"     -> "sendToAgent"
    [] targetType = "broadcast" -> "broadcast"

\* the key of this process: process.env.MESSAGE_SIGNING_KEY || uuid(), a
\* fresh one in every process when the environment sets none
signingKey == restarts

\* a signature that does not cover the text
signMessage_noText(id, senderId, text, sentAt) ==
  <<signingKey, id, senderId, sentAt>>
\* HMAC-SHA256 under the signing key of JSON.stringify({id, senderId,
\* content, sentAt}); content is the text and the mentions extracted from it
signMessage(id, senderId, text, sentAt) ==
  <<signingKey, id, senderId, text, sentAt>>

\* verifySignature of the message stored under id
verifySignature(id, message) ==
  message.signature = signMessage(id, message.senderId, message.text, message.sentAt)

\* storage.saveMessage: INSERT ... ON CONFLICT (id) DO UPDATE SET content,
\* delivery_status, edited_at, deleted_at: a new id gets the whole row, an
\* existing row keeps its other columns (the signature among them)
saveMessage(store, id, message) ==
  IF id \notin DOMAIN store THEN MapSet(store, id, message)
  ELSE [store EXCEPT ![id] =
          [@ EXCEPT !.text = message.text,
                    !.mentions = message.mentions,
                    !.deliveryStatus = message.deliveryStatus,
                    !.editedAt = message.editedAt,
                    !.deletedAt = message.deletedAt]]

\* storage.getMessageById: SELECT * FROM messages WHERE id = $1
getMessageById(store, id) == IF id \in DOMAIN store THEN store[id] ELSE None

\* a send is possible while fewer than cap message uuids have been drawn
sendWithin(cap, targetType, targetId, senderId) ==
  sendDenied(targetType, targetId, senderId) \/ nextMessage < cap

\* the characters the regular expression class \w matches
WordChars ==
  {"a", "b", "c", "d", "e", "f", "g", "h", "i", "j", "k", "l", "m", "n", "o",
   "p", "q", "r", "s", "t", "u", "v", "w", "x", "y", "z",
   "A", "B", "C", "D", "E", "F", "G", "H", "I", "J", "K", "L", "M", "N", "O",
   "P", "Q", "R", "S", "T", "U", "V", "W", "X", "Y", "Z",
   "0", "1", "2", "3", "4", "5", "6", "7", "8", "9", "_"}

\* the greedy \w+ : the number of word characters from position p (1-based) on
RECURSIVE wordRun(_, _)
wordRun(text, p) ==
  IF p > Len(text) \/ text[p] \notin WordChars THEN 0
  ELSE 1 + wordRun(text, p + 1)

\* every mention is of an identity
mentionType_agent(word) == "agent"
\* match[1] === 'all' || match[1] === 'here' ? 'all' : 'agent'
mentionType(word) ==
  IF word = <<"a", "l", "l">> \/ word = <<"h", "e", "r", "e">>
  THEN "all" ELSE "agent"

\* the loop over regex.exec(text) of /@(\w+)/g from lastIndex i (0-based) on
RECURSIVE scanMentions(_, _)
scanMentions(text, i) ==
  IF i >= Len(text) THEN << >>
  ELSE IF text[i + 1] = "@" /\ wordRun(text, i + 2) > 0
       THEN LET n == wordRun(text, i + 2)
            IN <<[type       |-> mentionType(SubSeq(text, i + 2, i + 1 + n)),
                  startIndex |-> i,
                  length     |-> n + 1]>>
                 \o scanMentions(text, i + 1 + n)
       ELSE scanMentions(text, i + 1)

extractMentions(text) == scanMentions(text, 0)

\* ------------------------------------------------ MessageService, actions

send(targetType, targetId, threadId, text, senderId) ==
  /\ phase = "ready"
  /\ IF sendDenied(targetType, targetId, senderId)
     THEN /\ last' = Call("send", "PermissionDenied")
          /\ UNCHANGED msgVars
     ELSE /\ nextMessage < MaxLedger
          /\ LET id == MessageIdPool[nextMessage + 1]
                 message == [targetId       |-> targetId,
                             targetType     |-> targetType,
                             senderId       |-> senderId,
                             threadId       |-> threadId,
                             text           |-> text,
                             mentions       |-> extractMentions(text),
                             signature      |-> signMessage(id, senderId, text, clock),
                             deliveryStatus |-> "sent",
                             sentAt         |-> clock,
                             editedAt       |-> Never,
                             deletedAt      |-> Never]
             IN /\ messages' = MapSet(messages, id, message)
                /\ channelMessages' =
                     IF targetType = "channel"
                     THEN pushIndex(channelMessages, targetId, id)
                     ELSE channelMessages
                /\ threadMessages' =
                     IF threadId # None
                     THEN pushIndex(threadMessages, threadId, id)
                     ELSE threadMessages
                /\ storeMessages' = IF storeUp THEN saveMessage(storeMessages, id, message)
                                   ELSE storeMessages
                /\ relaySent' =
                     IF relayReady
                     THEN Append(relaySent,
                                 <<relayCallFor(targetType), targetId, id>>)
                     ELSE relaySent
                /\ nextMessage' = nextMessage + 1
                /\ last' = Call("send", id)
                /\ UNCHANGED pendingLoads
  /\ UNCHANGED <<chanVars, storeUp, relayReady, presVars, clock, authVars, relayVars>>

\* ids.map(id => messages.get(id)).filter(Boolean): the indexed ids of a
\* channel that the message map holds, deleted ones included
indexedIds(channelId) ==
  IF channelId \in DOMAIN channelMessages
  THEN SelectSeq(channelMessages[channelId], LAMBDA id : id \in DOMAIN messages)
  ELSE << >>

\* getChannelMessages as called: the listing is computed from the maps as
\* they are; when the channel has no message in memory a read from the
\* Store is started, whose rows arrive after the call has returned
getChannelMessagesRequest(channelId, limit, before) ==
  /\ pendingLoads' = IF indexedIds(channelId) = << >>
                     THEN pendingLoads \cup {<<channelId, limit>>}
                     ELSE pendingLoads
  /\ last' = Call("getChannelMessages",
                  ToString(getChannelMessagesOf(messages, channelMessages,
                                                channelId, limit, before)))
  /\ UNCHANGED <<messages, channelMessages, threadMessages, storeMessages,
                 relaySent, nextMessage, chanVars, storeUp, relayReady, presVars, clock, authVars, relayVars>>

\* storage.getChannelMessages(channelId, limit): the rows with
\* deleted_at IS NULL AND target_id = channelId, ORDER BY ts DESC LIMIT
\* limit, as sequences of ids; rows of equal ts come in any order
storeRows(channelId, limit) ==
  LET eligible == {id \in DOMAIN storeMessages :
                     /\ storeMessages[id].targetId = channelId
                     /\ storeMessages[id].deletedAt = Never}
      n == IF Cardinality(eligible) < limit THEN Cardinality(eligible) ELSE limit
  IN {rows \in [1..n -> eligible] :
        /\ \A i, j \in 1..n : i < j =>
             /\ rows[i] # rows[j]
             /\ storeMessages[rows[i]].sentAt >= storeMessages[rows[j]].sentAt
        /\ \A id \in eligible : (\A i \in 1..n : rows[i] # id) =>
             \A i \in 1..n : storeMessages[rows[i]].sentAt >= storeMessages[id].sentAt}

\* index[key] with id pushed unless the list includes it
pushIndexOnce(index, key, id) ==
  IF key \in DOMAIN index /\ \E k \in 1..Len(index[key]) : index[key][k] = id
  THEN index
  ELSE MapSet(index, key, (IF key \in DOMAIN index THEN index[key] ELSE << >>) \o <<id>>)

\* a load that puts every row into the maps and indexes, held or not
RECURSIVE loadRows_unguarded(_, _, _)
loadRows_unguarded(L, rows, k) ==
  IF k > Len(rows) THEN L
  ELSE LET id == rows[k]
           msg == storeMessages[id]
       IN loadRows_unguarded(
            [messages        |-> MapSet(L.messages, id, msg),
             channelMessages |-> pushIndex(L.channelMessages, msg.targetId, id),
             threadMessages  |-> IF msg.threadId # None
                                 THEN pushIndex(L.threadMessages, msg.threadId, id)
                                 ELSE L.threadMessages],
            rows, k + 1)
\* the for loop of loadChannelMessagesFromStorage from row k on
RECURSIVE loadRows(_, _, _)
loadRows(L, rows, k) ==
  IF k > Len(rows) THEN L
  ELSE LET id == rows[k]
           msg == storeMessages[id]
       IN IF id \in DOMAIN L.messages THEN loadRows(L, rows, k + 1)
          ELSE loadRows(
                 [messages        |-> MapSet(L.messages, id, msg),
                  channelMessages |-> pushIndexOnce(L.channelMessages, msg.targetId, id),
                  threadMessages  |-> IF msg.threadId # None
                                      THEN pushIndexOnce(L.threadMessages, msg.threadId, id)
                                      ELSE L.threadMessages],
                 rows, k + 1)

\* the rows of a started read arrive and are put into the maps
loadChannelMessagesFromStorage(channelId, limit) ==
  /\ <<channelId, limit>> \in pendingLoads
  /\ pendingLoads' = pendingLoads \ {<<channelId, limit>>}
  /\ IF storeUp
     THEN \E rows \in storeRows(channelId, limit) :
            LET L == loadRows([messages        |-> messages,
                               channelMessages |-> channelMessages,
                               threadMessages  |-> threadMessages], rows, 1)
            IN /\ messages' = L.messages
               /\ channelMessages' = L.channelMessages
               /\ threadMessages' = L.threadMessages
     ELSE UNCHANGED <<messages, channelMessages, threadMessages>>
  /\ last' = Call("loadChannelMessagesFromStorage", channelId)
  /\ UNCHANGED <<storeMessages, relaySent, nextMessage, chanVars, storeUp, relayReady, presVars,
                 clock, authVars, relayVars>>

\* the edit and delete events handed to the relay so far
eventCount ==
  Cardinality({k \in 1..Len(relaySent) : relaySent[k][1] = "emitRelayEvent"})

\* relayClient.emitRelayEvent({source, target, data: {messageId, action}});
\* a client that is not READY writes nothing and returns false
emitRelayEvent(source, message, messageId, action) ==
  IF relayReady
  THEN Append(relaySent,
              <<"emitRelayEvent", message.targetId, messageId, action, source>>)
  ELSE relaySent

\* only the sender may edit or delete: anyone may
isSender_anyone(message, agentId) == TRUE
\* only the sender may edit or delete: message.senderId !== editorId throws
isSender(message, agentId) == message.senderId = agentId

edit(messageId, newText, editorId) ==
  /\ IF messageId \notin DOMAIN messages
     THEN /\ last' = Call("edit", "false")
          /\ UNCHANGED <<messages, relaySent>>
     ELSE IF ~isSender(messages[messageId], editorId)
     THEN /\ last' = Call("edit", "PermissionDenied")
          /\ UNCHANGED <<messages, relaySent>>
     ELSE /\ eventCount < MaxEvents
          /\ messages' =
               [messages EXCEPT ![messageId] =
                  [@ EXCEPT !.text = newText,
                            !.editedAt = At(clock),
                            !.signature =
                               signMessage(messageId,
                                           messages[messageId].senderId, newText,
                                           messages[messageId].sentAt)]]
          /\ relaySent' = emitRelayEvent(editorId, messages[messageId],
                                         messageId, "edited")
          /\ last' = Call("edit", "true")
  /\ UNCHANGED <<channelMessages, threadMessages, storeMessages, pendingLoads,
                 nextMessage, chanVars, storeUp, relayReady, presVars, clock, authVars, relayVars>>

\* MessageService.delete: a soft delete; the Store row is not written
deleteMessage(messageId, deleterId) ==
  /\ IF messageId \notin DOMAIN messages
     THEN /\ last' = Call("deleteMessage", "false")
          /\ UNCHANGED <<messages, relaySent>>
     ELSE IF ~isSender(messages[messageId], deleterId)
     THEN /\ last' = Call("deleteMessage", "PermissionDenied")
          /\ UNCHANGED <<messages, relaySent>>
     ELSE /\ eventCount < MaxEvents
          /\ messages' = [messages EXCEPT ![messageId].deletedAt = At(clock)]
          /\ relaySent' = emitRelayEvent(deleterId, messages[messageId],
                                         messageId, "deleted")
          /\ last' = Call("deleteMessage", "true")
  /\ UNCHANGED <<channelMessages, threadMessages, storeMessages, pendingLoads,
                 nextMessage, chanVars, storeUp, relayReady, presVars, clock, authVars, relayVars>>

\* a direct call of the Store's saveMessage with the message the ledger
\* holds under messageId
saveMessageRequest(messageId) ==
  /\ messageId \in DOMAIN messages
  /\ storeUp
  /\ storeMessages' = saveMessage(storeMessages, messageId, messages[messageId])
  /\ last' = Call("saveMessage", messageId)
  /\ UNCHANGED <<messages, channelMessages, threadMessages, relaySent,
                 pendingLoads, nextMessage, chanVars, storeUp, relayReady, presVars, clock, authVars, relayVars>>

\* markDelivered that overwrites any state
markDelivered_fromAny(messageId, recipientId) ==
  /\ messages' =
       IF messageId \in DOMAIN messages
       THEN [messages EXCEPT ![messageId].deliveryStatus = "delivered"]
       ELSE messages
  /\ last' = Call("markDelivered", messageId)
  /\ UNCHANGED <<channelMessages, threadMessages, storeMessages, relaySent,
                 pendingLoads, nextMessage, chanVars, storeUp, relayReady, presVars, clock, authVars, relayVars>>
\* MessageService.markDelivered: from sent to delivered, nothing otherwise
markDelivered(messageId, recipientId) ==
  /\ messages' =
       IF messageId \in DOMAIN messages
          /\ messages[messageId].deliveryStatus = "sent"
       THEN [messages EXCEPT ![messageId].deliveryStatus = "delivered"]
       ELSE messages
  /\ last' = Call("markDelivered", messageId)
  /\ UNCHANGED <<channelMessages, threadMessages, storeMessages, relaySent,
                 pendingLoads, nextMessage, chanVars, storeUp, relayReady, presVars, clock, authVars, relayVars>>

markRead(messageId, readerId) ==
  /\ messages' =
       IF messageId \in DOMAIN messages
       THEN [messages EXCEPT ![messageId].deliveryStatus = "read"]
       ELSE messages
  /\ last' = Call("markRead", messageId)
  /\ UNCHANGED <<channelMessages, threadMessages, storeMessages, relaySent,
                 pendingLoads, nextMessage, chanVars, storeUp, relayReady, presVars, clock, authVars, relayVars>>

\* ------------------------------------------- AuthService / AgentService

\* resource names and patterns are strings, written character by character
ChannelKind  == <<"c", "h", "a", "n", "n", "e", "l", ":">>
MessageKind  == <<"m", "e", "s", "s", "a", "g", "e", ":">>
PresenceKind == <<"p", "r", "e", "s", "e", "n", "c", "e", ":">>
Star         == <<"*">>
Actions      == {"read", "write", "admin"}

DefaultPermissions ==
  <<[resource |-> ChannelKind \o Star, actions |-> {"read", "write"}],
    [resource |-> MessageKind \o Star, actions |-> {"read", "write"}],
    [resource |-> PresenceKind \o Star, actions |-> {"read", "write"}]>>
AdminPermissions == <<[resource |-> Star, actions |-> {"admin"}]>>
PermissionSets == {DefaultPermissions, AdminPermissions}

\* String.prototype.startsWith
startsWith(text, prefix) ==
  Len(prefix) <= Len(text) /\ SubSeq(text, 1, Len(prefix)) = prefix

\* the pattern of a capability covers the resource: the global wildcard, the
\* same string, or a pattern ending in * whose text before the * starts
\* the resource
matchResource(pattern, resource) ==
  \/ pattern = Star
  \/ pattern = resource
  \/ /\ Len(pattern) > 0
     /\ pattern[Len(pattern)] = "*"
     /\ startsWith(resource, SubSeq(pattern, 1, Len(pattern) - 1))

\* a capability grants only the actions it lists
grantsAction_listed(permission, action) == action \in permission.actions
\* a capability grants the actions it lists, and every action if it lists admin
grantsAction(permission, action) ==
  action \in permission.actions \/ "admin" \in permission.actions

\* the first capability whose pattern covers the resource decides
RECURSIVE checkPermissionsFrom_firstMatch(_, _, _, _)
checkPermissionsFrom_firstMatch(permissions, k, resource, action) ==
  IF k > Len(permissions) THEN FALSE
  ELSE IF matchResource(permissions[k].resource, resource)
       THEN grantsAction(permissions[k], action)
       ELSE checkPermissionsFrom_firstMatch(permissions, k + 1, resource, action)
\* the loop of checkPermissions from capability k on: true at the first
\* capability that covers the resource and grants the action
RECURSIVE checkPermissionsFrom(_, _, _, _)
checkPermissionsFrom(permissions, k, resource, action) ==
  IF k > Len(permissions) THEN FALSE
  ELSE IF /\ matchResource(permissions[k].resource, resource)
          /\ grantsAction(permissions[k], action)
       THEN TRUE
       ELSE checkPermissionsFrom(permissions, k + 1, resource, action)

\* AuthService.checkPermissions(permissions, resource, action)
checkPermissions(permissions, resource, action) ==
  checkPermissionsFrom(permissions, 1, resource, action)

\* the claims a token encodes; issuedAt and expiresAt come from the clock
generateToken(agentId, permissions, now) ==
  [agentId |-> agentId, permissions |-> permissions,
   issuedAt |-> now, expiresAt |-> now + TokenLifetime]

\* a token nobody signed with the process's secret
ForgedToken ==
  [agentId |-> "a1", permissions |-> AdminPermissions,
   issuedAt |-> 0, expiresAt |-> MaxClock + TokenLifetime + 1]

\* a verification that ignores the expiry
verifyTokenOk_noExpiry(signed, token, now) == token \in signed
\* verifyToken succeeds: the signature matches and now < expiresAt; no
\* registry or storage lookup takes part
verifyTokenOk(signed, token, now) ==
  token \in signed /\ now < token.expiresAt

\* AuthService.middleware(): 401 unless verifyToken succeeds
middlewareAccepts(signed, token, now) == verifyTokenOk(signed, token, now)

\* AgentService.validateToken: the agent's id, or none when the token does
\* not verify, names no registered agent or is not the agent's stored token
validateTokenIn(registry, signed, token, now) ==
  IF ~verifyTokenOk(signed, token, now) THEN None
  ELSE IF token.agentId \notin DOMAIN registry THEN None
  ELSE IF registry[token.agentId].token # token THEN None
  ELSE token.agentId

PresentedTokens == issuedTokens \cup {ForgedToken}

register(agentId) ==
  /\ agentId \notin DOMAIN agents
  /\ Cardinality(issuedTokens) < MaxTokens
  /\ LET token == generateToken(agentId, DefaultPermissions, clock)
     IN /\ agents' = MapSet(agents, agentId,
                            [permissions |-> DefaultPermissions, token |-> token])
        /\ issuedTokens' = issuedTokens \cup {token}
  /\ last' = Call("register", agentId)
  /\ UNCHANGED <<chanVars, msgVars, storeUp, relayReady, presVars, clock, relayVars>>

updatePermissions(agentId, permissions) ==
  /\ IF agentId \notin DOMAIN agents
     THEN /\ last' = Call("updatePermissions", "false")
          /\ UNCHANGED authVars
     ELSE /\ Cardinality(issuedTokens) < MaxTokens
          /\ LET token == generateToken(agentId, permissions, clock)
             IN /\ agents' = [agents EXCEPT ![agentId] =
                                [permissions |-> permissions, token |-> token]]
                /\ issuedTokens' = issuedTokens \cup {token}
          /\ last' = Call("updatePermissions", "true")
  /\ UNCHANGED <<chanVars, msgVars, storeUp, relayReady, presVars, clock, relayVars>>

refreshToken(agentId) ==
  /\ IF agentId \notin DOMAIN agents
     THEN /\ last' = Call("refreshToken", None)
          /\ UNCHANGED authVars
     ELSE /\ Cardinality(issuedTokens) < MaxTokens
          /\ LET token == generateToken(agentId, agents[agentId].permissions, clock)
             IN /\ agents' = [agents EXCEPT ![agentId].token = token]
                /\ issuedTokens' = issuedTokens \cup {token}
          /\ last' = Call("refreshToken", "token")
  /\ UNCHANGED <<chanVars, msgVars, storeUp, relayReady, presVars, clock, relayVars>>

\* AuthService.hasPermission(token, resource, action): false unless the
\* token verifies
hasPermission(token, resource, action) ==
  /\ last' = Call("hasPermission",
                  IF /\ verifyTokenOk(issuedTokens, token, clock)
                     /\ checkPermissions(token.permissions, resource, action)
                  THEN "true" ELSE "false")
  /\ UNCHANGED <<chanVars, msgVars, authVars, storeUp, relayReady, presVars, clock, relayVars>>

\* AgentService.validateToken(token)
validateToken(token) ==
  /\ last' = Call("validateToken",
                  validateTokenIn(agents, issuedTokens, token, clock))
  /\ UNCHANGED <<chanVars, msgVars, authVars, storeUp, relayReady, presVars, clock, relayVars>>

\* a request to a route behind authService.middleware()
authenticatedRequest(token) ==
  /\ last' = Call("request",
                  IF middlewareAccepts(issuedTokens, token, clock)
                  THEN "next" ELSE "401")
  /\ UNCHANGED <<chanVars, msgVars, authVars, storeUp, relayReady, presVars, clock, relayVars>>

Tick ==
  /\ clock < MaxClock
  /\ clock' = clock + 1
  /\ last' = Call("tick", None)
  /\ UNCHANGED <<chanVars, msgVars, authVars, storeUp, relayReady, presVars, relayVars>>

\* ---------------------------------------------------- PresenceService

\* the sweep's thresholds, in ticks of the clock
IdleThreshold    == 1
OfflineThreshold == 2

\* the active channel lists a heartbeat may carry; None: not supplied
ActiveLists == {None, << >>, <<"ch1">>}

\* a presence event handed to the relay's broadcast
PresenceEvent(agentId, status, reason) ==
  [agentId |-> agentId, status |-> status, reason |-> reason]

\* connect: creates or replaces the record, online, and broadcasts it
connect(agentId) ==
  /\ presence' = MapSet(presence, agentId,
                        [status         |-> "online",
                         lastHeartbeat  |-> clock,
                         activeChannels |-> << >>])
  /\ presenceSent' = {PresenceEvent(agentId, "online", None)}
  /\ last' = Call("connect", agentId)
  /\ UNCHANGED <<chanVars, msgVars, authVars, storeUp, relayReady, clock, relayVars>>

\* disconnect: removes the record and broadcasts offline with the reason
disconnect(agentId, reason) ==
  /\ IF agentId \in DOMAIN presence
     THEN /\ presence' = MapDelete(presence, agentId)
          /\ presenceSent' = {PresenceEvent(agentId, "offline", reason)}
     ELSE /\ presence' = presence
          /\ presenceSent' = {}
  /\ last' = Call("disconnect", agentId)
  /\ UNCHANGED <<chanVars, msgVars, authVars, storeUp, relayReady, clock, relayVars>>

\* a heartbeat that leaves an idle record idle
heartbeatStatus_keeps(status) == status
\* the status after a heartbeat: idle becomes online, any other stays
heartbeatStatus(status) == IF status = "idle" THEN "online" ELSE status

\* heartbeat: false without a record; else lastHeartbeat = now, the active
\* channels replaced if supplied, idle restored to online and broadcast
heartbeat(agentId, activeChannels) ==
  /\ IF agentId \notin DOMAIN presence
     THEN /\ last' = Call("heartbeat", "false")
          /\ presence' = presence
          /\ presenceSent' = {}
     ELSE /\ presence' =
               [presence EXCEPT ![agentId] =
                  [status         |-> heartbeatStatus(presence[agentId].status),
                   lastHeartbeat  |-> clock,
                   activeChannels |-> IF activeChannels = None
                                      THEN presence[agentId].activeChannels
                                      ELSE activeChannels]]
          /\ presenceSent' =
               IF heartbeatStatus(presence[agentId].status) # presence[agentId].status
               THEN {PresenceEvent(agentId,
                                   heartbeatStatus(presence[agentId].status), None)}
               ELSE {}
          /\ last' = Call("heartbeat", "true")
  /\ UNCHANGED <<chanVars, msgVars, authVars, storeUp, relayReady, clock, relayVars>>

\* setStatus: false without a record; else the status and lastHeartbeat are
\* set, and the change is broadcast only if the status differs
setStatus(agentId, status) ==
  /\ IF agentId \notin DOMAIN presence
     THEN /\ last' = Call("setStatus", "false")
          /\ presence' = presence
          /\ presenceSent' = {}
     ELSE /\ presence' = [presence EXCEPT ![agentId].status = status,
                                          ![agentId].lastHeartbeat = clock]
          /\ presenceSent' =
               IF presence[agentId].status # status
               THEN {PresenceEvent(agentId, status, None)} ELSE {}
          /\ last' = Call("setStatus", "true")
  /\ UNCHANGED <<chanVars, msgVars, authVars, storeUp, relayReady, clock, relayVars>>

\* time since the record's last heartbeat
elapsed(record) == clock - record.lastHeartbeat

\* a sweep that removes idle records at once
timedOut_atIdle(record) == elapsed(record) > IdleThreshold
\* the record is past the offline threshold
timedOut(record) == elapsed(record) > OfflineThreshold

\* a sweep that marks nothing idle
turnsIdle_never(record) == FALSE
\* the record turns idle in this sweep
turnsIdle(record) ==
  elapsed(record) > IdleThreshold /\ record.status = "online"

\* the periodic sweep over every presence record
sweep ==
  /\ presence' =
       [a \in {b \in DOMAIN presence : ~timedOut(presence[b])} |->
          IF turnsIdle(presence[a])
          THEN [presence[a] EXCEPT !.status = "idle"]
          ELSE presence[a]]
  /\ presenceSent' =
       {PresenceEvent(a, "idle", None) :
          a \in {b \in DOMAIN presence : turnsIdle(presence[b])}}
         \cup {PresenceEvent(a, "offline", "timeout") :
                 a \in {b \in DOMAIN presence : timedOut(presence[b])}}
  /\ last' = Call("sweep", None)
  /\ UNCHANGED <<chanVars, msgVars, authVars, storeUp, relayReady, clock, relayVars>>

\* ------------------------------------------------------------ environment

\* Store calls start to fail (pool.query rejects) or succeed again
StoreOutage ==
  /\ storeUp' = ~storeUp
  /\ last' = Call("store", IF storeUp THEN "down" ELSE "up")
  /\ UNCHANGED <<chanVars, msgVars, authVars, relayReady, presVars, clock, relayVars>>

\* RelayDaemonClient.handleDisconnect: the socket closed
handleDisconnect ==
  /\ relayReady
  /\ relayReady' = FALSE
  /\ last' = Call("handleDisconnect", None)
  /\ UNCHANGED <<chanVars, msgVars, authVars, presVars, storeUp, clock, relayVars>>

\* RelayDaemonClient.handleWelcome: the daemon accepted the (re)connection
handleWelcome ==
  /\ ~relayReady
  /\ relayReady' = TRUE
  /\ last' = Call("handleWelcome", None)
  /\ UNCHANGED <<chanVars, msgVars, authVars, presVars, storeUp, clock, relayVars>>

\* -------------------------------------------------- RelayDaemonClient

\* options.maxReconnectAttempts as the client under study is configured
\* (options.reconnect keeps its default, true)
MaxReconnectAttempts == 2
\* sockets net.createConnection hands out over one run
MaxSockets == 4
\* envelopes written to sockets over one run
MaxWrites == 2

AgentName == "Moltslack"

\* The client after its constructor.  socket is this.socket: "null", or the
\* condition of the net.Socket it refers to ("connecting", "connected",
\* "destroyed").  closeEvents counts the 'close' events sockets have queued
\* and whose listeners have not run yet; orphans counts live sockets that
\* this.socket no longer refers to; hello says that HELLO went out on the
\* current connection and WELCOME has not come back; stopped says that
\* stop() has resolved and start() has not been called since.
NewClient ==
  [state             |-> "DISCONNECTED",
   socket            |-> "null",
   reconnectTimer    |-> FALSE,
   reconnectAttempts |-> 0,
   pendingAcks       |-> 0,
   subscriptions     |-> {},
   hello             |-> FALSE,
   closeEvents       |-> 0,
   orphans           |-> 0,
   sockets           |-> 0,
   written           |-> << >>,
   stopped           |-> FALSE]

socketLive(C) == C.socket \in {"connecting", "connected"}

\* sendEnvelope: false without a socket or with a destroyed one, otherwise
\* the frame is handed to socket.write
sendEnvelope(C, type) ==
  IF C.socket = "null" \/ C.socket = "destroyed"
  THEN [client |-> C, sent |-> FALSE]
  ELSE [client |-> [C EXCEPT !.written = Append(@, type)], sent |-> TRUE]

\* the body of start(): nothing unless DISCONNECTED; otherwise CONNECTING
\* with a socket from net.createConnection in this.socket (a live socket
\* this.socket referred to stays open, unreferenced)
startIn(C) ==
  IF C.state # "DISCONNECTED" THEN C
  ELSE [C EXCEPT !.state = "CONNECTING",
                 !.socket = "connecting",
                 !.hello = FALSE,
                 !.sockets = @ + 1,
                 !.orphans = IF socketLive(C) THEN @ + 1 ELSE @]

\* scheduleReconnect: nothing while a timer is pending; otherwise one more
\* attempt, BACKOFF and a timer
scheduleReconnect(C) ==
  IF C.reconnectTimer THEN C
  ELSE [C EXCEPT !.reconnectAttempts = @ + 1,
                 !.state = "BACKOFF",
                 !.reconnectTimer = TRUE]

\* handleDisconnect as the 'close' listener runs it
handleDisconnectIn(C) ==
  LET D == [C EXCEPT !.state = "DISCONNECTED"]
  IN IF D.reconnectAttempts < MaxReconnectAttempts
     THEN scheduleReconnect(D) ELSE D

\* handleWelcome: READY whatever the state was, attempts back to 0
handleWelcomeIn(C) ==
  [C EXCEPT !.state = "READY", !.reconnectAttempts = 0, !.hello = FALSE]

\* what a start() may do within the socket budget
canStart(C) == C.state = "DISCONNECTED" => C.sockets < MaxSockets

clientRest == <<chanVars, msgVars, authVars, presVars, storeUp, relayReady,
                clock, framing>>

\* start() called by the owner of the client
start ==
  /\ canStart(relayClient)
  /\ relayClient' = [startIn(relayClient) EXCEPT !.stopped = FALSE]
  /\ last' = Call("start", relayClient'.state)
  /\ UNCHANGED clientRest

\* stop(): the timer is cleared, the socket ended and destroyed (its 'close'
\* event follows later) and forgotten, the state set to DISCONNECTED
stop ==
  /\ relayClient' =
       [relayClient EXCEPT
          !.reconnectTimer = FALSE,
          !.closeEvents = IF socketLive(relayClient) THEN @ + 1 ELSE @,
          !.socket = "null",
          !.hello = FALSE,
          !.state = "DISCONNECTED",
          !.stopped = TRUE]
  /\ last' = Call("stop", None)
  /\ UNCHANGED clientRest

\* socket.on('connect'): HANDSHAKING and HELLO
socketConnect ==
  /\ relayClient.socket = "connecting"
  /\ LET C == [relayClient EXCEPT !.socket = "connected",
                                  !.state = "HANDSHAKING"]
         r == sendEnvelope(C, "HELLO")
     IN relayClient' = [r.client EXCEPT !.hello = r.sent]
  /\ last' = Call("connect", None)
  /\ UNCHANGED clientRest

\* the connection attempt fails or the daemon closes the connection: the
\* socket is destroyed and queues its 'close' event
socketEnd ==
  /\ socketLive(relayClient)
  /\ relayClient' = [relayClient EXCEPT !.socket = "destroyed",
                                        !.hello = FALSE,
                                        !.closeEvents = @ + 1]
  /\ last' = Call("end", None)
  /\ UNCHANGED clientRest

\* a socket this.socket no longer refers to closes
orphanEnd ==
  /\ relayClient.orphans > 0
  /\ relayClient' = [relayClient EXCEPT !.orphans = @ - 1,
                                        !.closeEvents = @ + 1]
  /\ last' = Call("orphanEnd", None)
  /\ UNCHANGED clientRest

\* socket.on('close'): handleDisconnect
socketClose ==
  /\ relayClient.closeEvents > 0
  /\ relayClient' =
       handleDisconnectIn([relayClient EXCEPT !.closeEvents = @ - 1])
  /\ last' = Call("close", relayClient'.state)
  /\ UNCHANGED clientRest

\* the reconnect timer fires: the timer is forgotten and start() awaited
reconnectTimeout ==
  /\ relayClient.reconnectTimer
  /\ LET C == [relayClient EXCEPT !.reconnectTimer = FALSE]
     IN /\ canStart(C)
        /\ relayClient' = startIn(C)
  /\ last' = Call("reconnectTimeout", relayClient'.state)
  /\ UNCHANGED clientRest

\* a WELCOME frame arrives on the connection HELLO went out on
welcomeFrame ==
  /\ relayClient.socket = "connected"
  /\ relayClient.hello
  /\ relayClient' = handleWelcomeIn(relayClient)
  /\ last' = Call("welcome", None)
  /\ UNCHANGED clientRest

\* the envelope types of the operations that check for READY
readyGuarded(C, type) ==
  IF C.state # "READY" THEN [client |-> C, sent |-> FALSE]
  ELSE sendEnvelope(C, type)

canWrite == Len(relayClient.written) < MaxWrites

outcome(r) == IF r.sent THEN "true" ELSE "false"

sendMessage ==
  /\ canWrite
  /\ LET r == readyGuarded(relayClient, "SEND")
     IN relayClient' = r.client /\ last' = Call("sendMessage", outcome(r))
  /\ UNCHANGED clientRest

sendChannelMessage ==
  /\ canWrite
  /\ LET r == readyGuarded(relayClient, "CHANNEL_MESSAGE")
     IN relayClient' = r.client /\ last' = Call("sendChannelMessage", outcome(r))
  /\ UNCHANGED clientRest

joinChannel(channel) ==
  /\ canWrite
  /\ LET r == readyGuarded(relayClient, "CHANNEL_JOIN")
     IN /\ relayClient' = r.client
        /\ relayChannelMembers' =
             IF r.sent
             THEN MapSet(relayChannelMembers, channel,
                         (IF channel \in DOMAIN relayChannelMembers
                          THEN relayChannelMembers[channel] ELSE {})
                         \cup {AgentName})
             ELSE relayChannelMembers
        /\ last' = Call("joinChannel", outcome(r))
  /\ UNCHANGED <<phase, channels, nameIndex, memberships, storeChannels,
                 nextChannel, ruleAdds, restarts, msgVars, authVars, presVars,
                 storeUp, relayReady, clock, framing>>

leaveChannel(channel) ==
  /\ canWrite
  /\ LET r == readyGuarded(relayClient, "CHANNEL_LEAVE")
     IN /\ relayClient' = r.client
        /\ relayChannelMembers' =
             IF r.sent /\ channel \in DOMAIN relayChannelMembers
             THEN [relayChannelMembers EXCEPT ![channel] = @ \ {AgentName}]
             ELSE relayChannelMembers
        /\ last' = Call("leaveChannel", outcome(r))
  /\ UNCHANGED <<phase, channels, nameIndex, memberships, storeChannels,
                 nextChannel, ruleAdds, restarts, msgVars, authVars, presVars,
                 storeUp, relayReady, clock, framing>>

subscribe(topic) ==
  /\ canWrite
  /\ LET r == readyGuarded(relayClient, "SUBSCRIBE")
     IN /\ relayClient' =
             [r.client EXCEPT !.subscriptions =
                IF r.sent THEN @ \cup {topic} ELSE @]
        /\ last' = Call("subscribe", outcome(r))
  /\ UNCHANGED clientRest

unsubscribe(topic) ==
  /\ canWrite
  /\ LET r == readyGuarded(relayClient, "UNSUBSCRIBE")
     IN /\ relayClient' =
             [r.client EXCEPT !.subscriptions =
                IF r.sent THEN @ \ {topic} ELSE @]
        /\ last' = Call("unsubscribe", outcome(r))
  /\ UNCHANGED clientRest

\* the envelope of sendWithAck goes straight to sendEnvelope
sendWithAckEnvelope(C) == sendEnvelope(C, "SEND")

\* sendWithAck: the promise stays pending when the envelope was written and
\* is rejected when it was not
sendWithAck ==
  /\ canWrite
  /\ LET r == sendWithAckEnvelope(relayClient)
     IN /\ relayClient' =
             [r.client EXCEPT !.pendingAcks = IF r.sent THEN @ + 1 ELSE @]
        /\ last' = Call("sendWithAck", IF r.sent THEN "pending" ELSE "rejected")
  /\ UNCHANGED clientRest

\* the ACK frame arrives or the ack timeout fires: the promise settles
ackSettles ==
  /\ relayClient.pendingAcks > 0
  /\ relayClient' = [relayClient EXCEPT !.pendingAcks = @ - 1]
  /\ last' = Call("ackSettles", None)
  /\ UNCHANGED clientRest

\* ------------------------------------------------------- FrameParser

\* frames the daemon writes over one run, and bytes of JSON in a frame
MaxFrames == 2
MaxBodyLen == 2

\* const MAX_FRAME_BYTES = 16 * 1024 * 1024
MAX_FRAME_BYTES == 16777216

\* the bytes of the JSON texts the daemon sends: the digits 1 and 2
JsonBytes == {49, 50}
Bodies == UNION {[1..n -> JsonBytes] : n \in 1..MaxBodyLen}

\* is the text a JSON number written with the digits 1 to 9
isJson(bytes) ==
  /\ Len(bytes) > 0
  /\ \A k \in 1..Len(bytes) : bytes[k] \in 49..57

\* JSON.parse(frameData.toString('utf-8')) of such a text: its value
RECURSIVE JsonParse(_)
JsonParse(bytes) ==
  IF Len(bytes) = 0 THEN 0
  ELSE 10 * JsonParse(SubSeq(bytes, 1, Len(bytes) - 1))
       + (bytes[Len(bytes)] - 48)

\* lengthBuffer.writeUInt32BE(n, 0)
writeUInt32BE(n) ==
  << (n \div 16777216) % 256, (n \div 65536) % 256, (n \div 256) % 256, n % 256 >>

\* the four bytes read with the least significant byte first
readUInt32LE(buffer) ==
  ((buffer[4] * 256 + buffer[3]) * 256 + buffer[2]) * 256 + buffer[1]
\* buffer.readUInt32BE(0)
readUInt32BE(buffer) ==
  ((buffer[1] * 256 + buffer[2]) * 256 + buffer[3]) * 256 + buffer[4]

\* a frame as sendEnvelope and the daemon build it: length, then the bytes
frameOf(body) == writeUInt32BE(Len(body)) \o body

\* buffer.slice(from): the bytes from index from (0-based) on
sliceFrom(buffer, from) == SubSeq(buffer, from + 1, Len(buffer))

\* The parser after construction together with its surroundings: wire holds
\* the bytes the daemon wrote that no 'data' event has delivered yet,
\* bodies the JSON texts the daemon framed, in order, frames the values
\* handed to onFrame, in order, errors the number of onError calls.
NewFraming ==
  [buffer         |-> << >>,
   expectedLength |-> Never,
   wire           |-> << >>,
   bodies         |-> << >>,
   frames         |-> << >>,
   errors         |-> 0]

\* parseFrames: the while loop over the buffer
RECURSIVE parseFrames(_)
parseFrames(P) ==
  IF Len(P.buffer) = 0 THEN P
  ELSE IF P.expectedLength = Never /\ Len(P.buffer) < 4 THEN P
  ELSE LET fresh == P.expectedLength = Never
           Q == IF fresh
                THEN [P EXCEPT !.expectedLength = At(readUInt32BE(P.buffer)),
                               !.buffer = sliceFrom(P.buffer, 4)]
                ELSE P
           n == CHOOSE x \in Q.expectedLength : TRUE
       IN IF fresh /\ n > MAX_FRAME_BYTES
          THEN [Q EXCEPT !.errors = @ + 1,
                         !.buffer = << >>,
                         !.expectedLength = Never]
          ELSE IF Len(Q.buffer) < n THEN Q
          ELSE LET frameData == SubSeq(Q.buffer, 1, n)
                   R == [Q EXCEPT !.buffer = sliceFrom(Q.buffer, n),
                                  !.expectedLength = Never]
               IN parseFrames(
                    IF isJson(frameData)
                    THEN [R EXCEPT !.frames = Append(@, JsonParse(frameData))]
                    ELSE [R EXCEPT !.errors = @ + 1])

framingRest == <<chanVars, msgVars, authVars, presVars, storeUp, relayReady,
                 clock, relayClient>>

\* the daemon writes one more frame
daemonWrites(body) ==
  /\ Len(framing.bodies) < MaxFrames
  /\ framing' = [framing EXCEPT !.wire = @ \o frameOf(body),
                                !.bodies = Append(@, body)]
  /\ last' = Call("daemonWrites", Len(body))
  /\ UNCHANGED framingRest

\* socket.on('data'): the next size bytes arrive as one chunk; feed(data)
feed(size) ==
  /\ size \in 1..Len(framing.wire)
  /\ framing' =
       parseFrames([framing EXCEPT
                      !.buffer = @ \o SubSeq(framing.wire, 1, size),
                      !.wire = sliceFrom(@, size)])
  /\ last' = Call("feed", size)
  /\ UNCHANGED framingRest

\* a new process on the same Store: every in-memory map starts empty; what
\* the relay was handed stays handed
Restart ==
  /\ restarts < MaxRestarts
  /\ restarts' = restarts + 1
  /\ phase' = "constructed"
  /\ channels' = Empty
  /\ nameIndex' = Empty
  /\ memberships' = Empty
  /\ relayChannelMembers' = Empty
  /\ messages' = Empty
  /\ channelMessages' = Empty
  /\ threadMessages' = Empty
  /\ pendingLoads' = {}
  /\ presence' = Empty
  /\ presenceSent' = {}
  /\ last' = Call("restart", None)
  /\ UNCHANGED <<storeChannels, nextChannel, ruleAdds, storeMessages,
                 relaySent, nextMessage, storeUp, relayReady, clock, authVars, relayVars>>

Init ==
  /\ phase = "constructed"
  /\ channels = Empty
  /\ nameIndex = Empty
  /\ memberships = Empty
  /\ storeChannels = Empty
  /\ storeUp = TRUE
  /\ relayReady = TRUE
  /\ nextChannel = 0
  /\ ruleAdds = 0
  /\ restarts = 0
  /\ relayChannelMembers = Empty
  /\ messages = Empty
  /\ channelMessages = Empty
  /\ threadMessages = Empty
  /\ storeMessages = Empty
  /\ relaySent = << >>
  /\ pendingLoads = {}
  /\ nextMessage = 0
  /\ clock = 0
  /\ agents = Empty
  /\ issuedTokens = {}
  /\ presence = Empty
  /\ presenceSent = {}
  /\ relayClient = NewClient
  /\ framing = NewFraming
  /\ last = Call("new", None)

SendTargets == {<<"channel", c>> : c \in AllChannelIds}
               \cup {<<"agent", a>> : a \in Agents}
               \cup {<<"broadcast", "*">>}

\* Access control and sending (top-level messages) within one process run.
Next ==
  \/ initializeChannels
  \/ \E t \in ChannelTypes, a \in Agents : create("dev", t, a)
  \/ \E c \in AllChannelIds, r \in InputRules : addAccessRule(c, r)
  \/ \E tg \in SendTargets, a \in Agents :
       /\ sendWithin(MaxMessages, tg[1], tg[2], a)
       /\ send(tg[1], tg[2], None, Hello, a)

Spec == Init /\ [][Next]_vars

\* The channel registry over process restarts on one Store.
NextChan ==
  \/ initializeChannels
  \/ \E t \in ChannelTypes, a \in Agents : create("general", t, a)
  \/ \E c \in AllChannelIds, a \in Agents : join(c, a)
  \/ \E c \in AllChannelIds, a \in Agents : leave(c, a)
  \/ \E c \in AllChannelIds : delete(c)
  \/ Restart

SpecChan == Init /\ [][NextChan]_vars

\* the live channels named dev
devChannels == {c \in DOMAIN channels : channels[c].name = "dev"}

\* Membership of the dev channels, whose rules grow, over creations,
\* deletions and process restarts.
NextMembers ==
  \/ initializeChannels
  \/ \E t \in ChannelTypes : create("dev", t, "a1")
  \/ \E c \in devChannels, a \in Agents : join(c, a)
  \/ \E c \in devChannels, a \in Agents : leave(c, a)
  \/ \E c \in devChannels, r \in InputRules : addAccessRule(c, r)
  \/ \E c \in devChannels : update(c)
  \/ \E c \in devChannels : delete(c)
  \/ Restart

SpecMembers == Init /\ [][NextMembers]_vars

\* Joining and sending (with thread replies) on channels that keep their
\* creation-time rules.
NextJoinSend ==
  \/ initializeChannels
  \/ \E c \in AllChannelIds, a \in Agents : join(c, a)
  \/ \E tg \in SendTargets, th \in ThreadIds \cup {None}, a \in Agents :
       /\ sendWithin(MaxMessages, tg[1], tg[2], a)
       /\ send(tg[1], tg[2], th, Hello, a)
  \/ Restart

SpecJoinSend == Init /\ [][NextJoinSend]_vars

\* Deleting and re-creating channels that hold messages.
NextDelete ==
  \/ initializeChannels
  \/ \E t \in ChannelTypes, a \in Agents : create("general", t, a)
  \/ \E c \in AllChannelIds, th \in ThreadIds \cup {None}, a \in Agents :
       /\ sendWithin(MaxMessages, "channel", c, a)
       /\ send("channel", c, th, Hello, a)
  \/ \E c \in AllChannelIds : delete(c)

SpecDelete == Init /\ [][NextDelete]_vars

\* Reading a channel whose messages lie in the Store, with sends and loads
\* interleaved, over process restarts.
NextReload ==
  \/ initializeChannels
  \/ \E th \in ThreadIds \cup {None} : send("channel", "ch1", th, Hello, "a1")
  \/ \E l \in {1, DefaultLimit} : getChannelMessagesRequest("ch1", l, None)
  \/ \E p \in pendingLoads : loadChannelMessagesFromStorage(p[1], p[2])
  \/ Restart

SpecReload == Init /\ [][NextReload]_vars

\* The relay client's connection life cycle.
NextRelay ==
  \/ start
  \/ stop
  \/ socketConnect
  \/ socketEnd
  \/ orphanEnd
  \/ socketClose
  \/ reconnectTimeout
  \/ welcomeFrame

SpecRelay == Init /\ [][NextRelay]_vars

\* A stream of frames from the daemon, cut into chunks.
NextFraming ==
  \/ \E body \in Bodies : daemonWrites(body)
  \/ \E size \in 1..(MaxFrames * (4 + MaxBodyLen)) : feed(size)

SpecFraming == Init /\ [][NextFraming]_vars

\* The relay client's operations that write envelopes, in every state of
\* the connection.
NextRelaySend ==
  \/ start
  \/ stop
  \/ socketConnect
  \/ socketEnd
  \/ orphanEnd
  \/ socketClose
  \/ reconnectTimeout
  \/ welcomeFrame
  \/ sendMessage
  \/ sendChannelMessage
  \/ joinChannel("general")
  \/ leaveChannel("general")
  \/ subscribe("events")
  \/ unsubscribe("events")
  \/ sendWithAck
  \/ ackSettles

SpecRelaySend == Init /\ [][NextRelaySend]_vars

\* message ids a caller may name
LedgerIds == {MessageIdPool[k] : k \in 1..MaxLedger}

\* limits and cursors a caller passes to getChannelMessages
Limits  == {1, 2, DefaultLimit}
Cursors == {MessageIdPool[k] : k \in 1..(MaxLedger + 1)} \cup {None}

\* Listing the channels that hold messages, within one process run.
NextList ==
  \/ initializeChannels
  \/ \E c \in AllChannelIds :
       /\ sendWithin(MaxLedger, "channel", c, "a1")
       /\ send("channel", c, None, Hello, "a1")
  \/ \E m \in DOMAIN messages, a \in Agents : deleteMessage(m, a)
  \/ \E c \in DOMAIN channelMessages, l \in Limits, b \in Cursors :
       getChannelMessagesRequest(c, l, b)
  \/ clock < MaxTicks /\ Tick

SpecList == Init /\ [][NextList]_vars

\* The message ledger over process restarts on one Store.
NextStore ==
  \/ initializeChannels
  \/ \E c \in AllChannelIds, th \in ThreadIds \cup {None} :
       /\ sendWithin(MaxMessages, "channel", c, "a1")
       /\ send("channel", c, th, Hello, "a1")
  \/ \E m \in DOMAIN messages, a \in Agents : deleteMessage(m, a)
  \/ \E c \in DOMAIN channels : getChannelMessagesRequest(c, DefaultLimit, None)
  \/ \E p \in pendingLoads : loadChannelMessagesFromStorage(p[1], p[2])
  \/ Restart

SpecStore == Init /\ [][NextStore]_vars

\* The Store's message upsert, called with messages as the ledger holds them
\* after sends, edits, deletes and delivery marks.
NextUpsert ==
  \/ initializeChannels
  \/ \E t \in Texts :
       /\ nextMessage = 0
       /\ send("channel", "ch1", None, t, "a1")
  \/ \E m \in LedgerIds, t \in Texts : edit(m, t, "a1")
  \/ \E m \in LedgerIds : deleteMessage(m, "a1")
  \/ \E m \in LedgerIds : markDelivered(m, "a2")
  \/ \E m \in LedgerIds : saveMessageRequest(m)
  \/ StoreOutage

SpecUpsert == Init /\ [][NextUpsert]_vars

\* Editing, deleting and marking messages within one process run.
NextEdit ==
  \/ initializeChannels
  \/ \E t \in Texts, a \in Agents :
       /\ sendWithin(MaxMessages, "channel", "ch1", a)
       /\ send("channel", "ch1", None, t, a)
  \/ \E m \in LedgerIds, t \in Texts, a \in Agents : edit(m, t, a)
  \/ \E m \in LedgerIds, a \in Agents : deleteMessage(m, a)
  \/ \E m \in LedgerIds : markDelivered(m, "a2")
  \/ \E m \in LedgerIds : markRead(m, "a2")

SpecEdit == Init /\ [][NextEdit]_vars

\* texts with mentions: the ones of the tests and every text of at most
\* MaxTextLen characters of a small alphabet
MentionAlphabet == {"@", "a", "l", " "}
MentionTexts ==
  {<<"H", "e", "l", "l", "o", " ", "@", "a", "l", "l">>,
   <<"H", "e", "l", "l", "o", " ", "@", "a", "l", "l", " ", "t", "e", "a", "m">>,
   <<"H", "i", " ", "@", "h", "e", "r", "e", " ", "p", "i", "n", "g", " ",
     "@", "a", "l", "i", "c", "e", " ", "a", "n", "d", " ", "@", "b", "o", "b">>,
   <<"@", "h", "e", "r", "e", "@", "a", "l", "l", "y", "!">>}
    \cup UNION {[1..n -> MentionAlphabet] : n \in 0..MaxTextLen}

\* Sending a text with mentions as the first message of the ledger.
NextMentions ==
  \/ initializeChannels
  \/ \E t \in MentionTexts :
       /\ nextMessage = 0
       /\ send("channel", "ch1", None, t, "a1")

SpecMentions == Init /\ [][NextMentions]_vars

\* texts an edit puts in place of a message's text
EditTexts == {<<"h", "i">>, <<"@", "a">>, <<"@", "a", "l", "l">>}

\* Mentions of one message under sends and edits.
NextEditMentions ==
  \/ initializeChannels
  \/ \E t \in MentionTexts :
       /\ nextMessage = 0
       /\ send("channel", "ch1", None, t, "a1")
  \/ \E m \in LedgerIds, t \in EditTexts : edit(m, t, "a1")

SpecEditMentions == Init /\ [][NextEditMentions]_vars

\* Requests while the Store or the relay connection may be down.
NextFail ==
  \/ initializeChannels
  \/ \E t \in {"public", "private"} : create("dev", t, "a1")
  \/ \E a \in Agents : join("ch1", a)
  \/ \E a \in Agents : leave("ch1", a)
  \/ \E a \in Agents :
       /\ sendWithin(MaxMessages, "channel", "ch1", a)
       /\ send("channel", "ch1", None, Hello, a)
  \/ StoreOutage
  \/ handleDisconnect
  \/ handleWelcome

SpecFail == Init /\ [][NextFail]_vars

\* Presence: connections, heartbeats, status changes and the sweep.
NextPresence ==
  \/ \E a \in Agents : connect(a)
  \/ \E a \in Agents : disconnect(a, "graceful")
  \/ \E a \in Agents, l \in ActiveLists : heartbeat(a, l)
  \/ \E a \in Agents : setStatus(a, "busy")
  \/ sweep
  \/ Tick

SpecPresence == Init /\ [][NextPresence]_vars

\* Tokens: registration, permission grants, refresh and token checks.
NextAuth ==
  \/ \E a \in Agents : register(a)
  \/ \E a \in Agents, p \in PermissionSets : updatePermissions(a, p)
  \/ \E a \in Agents : refreshToken(a)
  \/ \E t \in PresentedTokens : validateToken(t)
  \/ \E t \in PresentedTokens : authenticatedRequest(t)
  \/ Tick

SpecAuth == Init /\ [][NextAuth]_vars

\* capability lists a grant may carry, and the resources asked about
Patterns ==
  {ChannelKind \o <<"g">>, ChannelKind \o Star, <<"c", "h", "*">>,
   MessageKind \o Star, Star}
ActionSets == {{}, {"read"}, {"write"}, {"admin"}, {"read", "write"}}
Capabilities == [resource : Patterns, actions : ActionSets]
CapabilityLists == UNION {[1..n -> Capabilities] : n \in 0..MaxCaps}
Resources ==
  {ChannelKind \o <<"g">>, ChannelKind \o <<"d">>, MessageKind \o <<"1">>,
   <<"x">>}

\* Authorization: one grant of a capability list, then permission checks.
NextAuthz ==
  \/ register("a1")
  \/ \E C \in CapabilityLists :
       /\ Cardinality(issuedTokens) = 1
       /\ updatePermissions("a1", C)
  \/ \E t \in issuedTokens, r \in Resources, act \in Actions :
       hasPermission(t, r, act)

SpecAuthz == Init /\ [][NextAuthz]_vars

\* ------------------------------------------------------------ properties

MaybeThread == ThreadIds \cup {None}

\* C1: a send to a channel on which checkAccess(target, sender, write) is
\* false (also when no live channel has that id) raises PermissionDenied
\* and changes nothing: message store, channel index, thread index, Store
\* and relay are as before, and so are getCount() and
\* getChannelMessages(target).
C1_DeniedSendChangesNothing ==
  [][\A c \in AllChannelIds, th \in MaybeThread, a \in Agents :
       (~checkAccess(c, a, "write") /\ send("channel", c, th, Hello, a))
         => /\ last'.result = "PermissionDenied"
            /\ UNCHANGED <<messages, channelMessages, threadMessages,
                           storeMessages, relaySent>>
            /\ getCount' = getCount
            /\ getChannelMessages(c)' = getChannelMessages(c)]_vars

\* a send was refused while the ledger already held a message
C1_Witness ==
  /\ last = Call("send", "PermissionDenied")
  /\ getCount = 1

\* the indices of the rules of a channel that match an identity
matchingRules(channel, identity) ==
  {k \in 1..Len(channel.accessRules) :
     \/ channel.accessRules[k].principalType = "all"
     \/ /\ channel.accessRules[k].principalType = "agent"
        /\ channel.accessRules[k].principal = identity}

firstOf(indices) == CHOOSE k \in indices : \A j \in indices : k <= j

\* read < write < admin
levelRank(level) ==
  CASE level = "read" -> 1 [] level = "write" -> 2 [] level = "admin" -> 3

\* C2: on a live channel checkAccess is decided by the first rule, in list
\* order, that matches the identity (a rule for everyone or one naming it):
\* the result is whether that rule's level is at least the required level,
\* whatever later rules say.  Without a matching rule defaultAccess decides,
\* and a defaultAccess of none, or a missing channel, gives false.
C2_FirstMatchingRuleDecides ==
  \A c \in AllChannelIds, i \in Identities, r \in AccessLevels :
    IF c \in DOMAIN channels
    THEN LET matching == matchingRules(channels[c], i)
         IN IF matching # {}
            THEN checkAccess(c, i, r) =
                   (levelRank(channels[c].accessRules[firstOf(matching)].level)
                      >= levelRank(r))
            ELSE IF channels[c].defaultAccess = None
                 THEN ~checkAccess(c, i, r)
                 ELSE checkAccess(c, i, r) =
                        (levelRank(channels[c].defaultAccess) >= levelRank(r))
    ELSE ~checkAccess(c, i, r)

\* a live channel on which two rules of different levels match one identity
C2_Witness ==
  /\ last.op = "addAccessRule"
  /\ \E c \in DOMAIN channels, i \in Agents :
       \E k1, k2 \in matchingRules(channels[c], i) :
         /\ k1 < k2
         /\ channels[c].accessRules[k1].level # channels[c].accessRules[k2].level

\* C3: a channel created with kind restricted (private) or direct starts
\* with no access rules and defaultAccess none, so that right after its
\* creation no identity has read access and every join is refused.
C3_RestrictedAndDirectStartClosed ==
  [][\A n \in Names, a \in Agents, t \in {"private", "direct"} :
       (create(n, t, a) /\ last'.result # "AlreadyExists")
         => /\ channels'[last'.result].accessRules = << >>
            /\ channels'[last'.result].defaultAccess = None
            /\ \A i \in Identities :
                 ~checkAccessIn(channels', last'.result, i, "read")]_vars

\* an open channel that still has the rules and default it was created with
openAsCreated(c) ==
  /\ c \in DOMAIN channels
  /\ channels[c].type = "public"
  /\ channels[c].accessRules =
       << [principal |-> "*", principalType |-> "all", level |-> "write"] >>
  /\ channels[c].defaultAccess = "read"

\* no rule of the channel names the identity
noExplicitRule(c, b) ==
  \A k \in 1..Len(channels[c].accessRules) :
    ~(/\ channels[c].accessRules[k].principalType = "agent"
      /\ channels[c].accessRules[k].principal = b)

channelMessageCount(c) ==
  IF c \in DOMAIN channelMessages THEN Len(channelMessages[c]) ELSE 0

C5_EarlierTokensRejected ==
  [][\A a \in Agents, p \in PermissionSets :
       (a \in DOMAIN agents /\ (updatePermissions(a, p) \/ refreshToken(a)))
         => \A t \in issuedTokens :
              t.agentId = a
                => /\ validateTokenIn(agents', issuedTokens', t, clock') = None
                   /\ ~middlewareAccepts(issuedTokens', t, clock')]_vars

\* C6: no two live channels have the same name, over any sequence of
\* create, delete, restart and startup load, and create fails with
\* AlreadyExists exactly when a live channel has the requested name.
C6_LiveNamesUnique ==
  [][/\ \A c1, c2 \in DOMAIN channels' :
          c1 # c2 => channels'[c1].name # channels'[c2].name
     /\ \A n \in Names, t \in ChannelTypes, a \in Agents :
          create(n, t, a)
            => (last'.result = "AlreadyExists"
                  <=> \E c \in DOMAIN channels : channels[c].name = n)]_vars

\* C7: for every live channel memberCount is the size of its membership
\* set, after every join and leave and for channels loaded from the Store.
C7_MemberCountIsMembershipSize ==
  \A c \in DOMAIN channels :
    channels[c].memberCount = Cardinality(getMembers(c))

\* after a restart a join has succeeded next to a channel loaded from the
\* Store
C7_Witness ==
  /\ last = Call("join", "true")
  /\ restarts > 0
  /\ \E c \in DOMAIN channels : channels[c].memberCount = 1
  /\ \E c \in DOMAIN channels : c \notin DOMAIN memberships

\* C8: join returns false only for an id that no live channel has: on a
\* live channel an identity with read access gets true and is a member
\* afterwards.
C8_JoinFalseOnlyForMissingChannel ==
  [][\A c \in AllChannelIds, a \in Agents :
       (join(c, a) /\ c \in DOMAIN channels /\ checkAccess(c, a, "read"))
         => (last'.result = "true" /\ a \in getMembers(c)')]_vars

\* C9: on a live channel a join by a member returns true and changes
\* neither membership, memberCount nor the relay subscriptions; a leave by
\* a non-member returns true, whatever its access, and changes neither
\* membership nor memberCount.
C9_JoinLeaveIdempotent ==
  [][\A c \in AllChannelIds, a \in Agents :
       c \in DOMAIN channels
         => /\ (join(c, a) /\ isMember(c, a))
                 => /\ last'.result = "true"
                    /\ UNCHANGED <<memberships, channels, relayChannelMembers>>
            /\ (leave(c, a) /\ ~isMember(c, a))
                 => /\ last'.result = "true"
                    /\ UNCHANGED <<memberships, channels>>]_vars

\* C10: a join by an identity without read access to a live channel raises
\* PermissionDenied and leaves membership, memberCount and the relay
\* subscriptions as they were.
C10_DeniedJoinChangesNothing ==
  [][\A c \in AllChannelIds, a \in Agents :
       (join(c, a) /\ c \in DOMAIN channels /\ ~checkAccess(c, a, "read"))
         => /\ last'.result = "PermissionDenied"
            /\ UNCHANGED <<memberships, channels, relayChannelMembers>>]_vars

\* a join was refused while some channel has a member
C10_Witness ==
  /\ last = Call("join", "PermissionDenied")
  /\ \E c \in DOMAIN channels : channels[c].memberCount > 0

\* the levels up to and including a level
levelsUpTo(level) == {r \in AccessLevels : levelRank(r) <= levelRank(level)}

\* rules that name one identity
AgentRules == {rule \in InputRules : rule.principalType = "agent"}

\* C11 as stated: on a live channel of any kind, once addAccessRule has
\* returned true for a rule naming identity X at level L, X has every level
\* up to and including L.
C11_AddedRuleGrantsItsLevel ==
  [][\A c \in AllChannelIds, rule \in AgentRules :
       (c \in DOMAIN channels /\ addAccessRule(c, rule))
         => /\ last'.result = "true"
            /\ \A r \in levelsUpTo(rule.level) :
                 checkAccessIn(channels', c, rule.principal, r)]_vars

\* C11 amended: addAccessRule on a live channel returns true and appends the
\* rule.  When no earlier rule of the channel matches X (no rule for
\* everyone, none naming X), X then has every level up to and including L
\* and no level above L; when an earlier rule matches X, that rule still
\* decides and X's access is what it was before.
C11_AddedRuleGrantsUnlessShadowed ==
  [][\A c \in AllChannelIds, rule \in AgentRules :
       (c \in DOMAIN channels /\ addAccessRule(c, rule))
         => /\ last'.result = "true"
            /\ channels'[c].accessRules = Append(channels[c].accessRules, rule)
            /\ IF matchingRules(channels[c], rule.principal) = {}
               THEN \A r \in AccessLevels :
                      checkAccessIn(channels', c, rule.principal, r)
                        <=> r \in levelsUpTo(rule.level)
               ELSE \A r \in AccessLevels :
                      checkAccessIn(channels', c, rule.principal, r)
                        <=> checkAccess(c, rule.principal, r)]_vars

\* a rule naming an identity was added to a channel without rules and gives
\* that identity write access, which it would not have by default
C11_Witness ==
  /\ last = Call("addAccessRule", "true")
  /\ \E c \in DOMAIN channels :
       /\ Len(channels[c].accessRules) = 1
       /\ channels[c].accessRules[1].principalType = "agent"
       /\ channels[c].defaultAccess = None
       /\ checkAccess(c, channels[c].accessRules[1].principal, "write")

\* C12: the levels are ordered read < write < admin: on every live channel
\* admin access implies write access and write access implies read access,
\* for every identity.
C12_LevelsAreOrdered ==
  \A c \in DOMAIN channels, i \in Identities :
    /\ checkAccess(c, i, "admin") => checkAccess(c, i, "write")
    /\ checkAccess(c, i, "write") => checkAccess(c, i, "read")

\* one identity has admin access to a channel on which another can read but
\* not write
C12_Witness ==
  \E c \in DOMAIN channels, i, j \in Identities :
    /\ checkAccess(c, i, "admin")
    /\ checkAccess(c, j, "read")
    /\ ~checkAccess(c, j, "write")

\* every channel id drawn so far
drawnChannelIds == {ChannelIdPool[k] : k \in 1..nextChannel}

\* C13: delete(channelId) on a live channel returns true, removes the
\* channel and its membership set and frees its name, so that a later create
\* with that name succeeds under an id never used before; the message
\* ledger is untouched: getChannelMessages(channelId) and getById return
\* what they returned before.
C13_DeleteFreesNameKeepsMessages ==
  [][/\ \A c \in AllChannelIds :
          (c \in DOMAIN channels /\ delete(c))
            => /\ last'.result = "true"
               /\ c \notin DOMAIN channels'
               /\ c \notin DOMAIN memberships'
               /\ channels[c].name \notin DOMAIN nameIndex'
               /\ UNCHANGED <<messages, channelMessages, threadMessages,
                              storeMessages>>
               /\ getChannelMessages(c)' = getChannelMessages(c)
               /\ \A m \in DOMAIN messages : getById(m)' = getById(m)
     /\ \A n \in Names, t \in ChannelTypes, a \in Agents :
          (n \notin DOMAIN nameIndex /\ create(n, t, a))
            => /\ last'.result \in DOMAIN channels'
               /\ last'.result \notin drawnChannelIds
               /\ channels'[last'.result].name = n
               /\ nameIndex'[n] = last'.result]_vars

\* a channel was created under the name of a deleted channel whose messages
\* are still listed under the deleted channel's id
C13_Witness ==
  /\ last.op = "create"
  /\ last.result \in DOMAIN channels
  /\ \E m \in DOMAIN messages :
       /\ messages[m].targetId \notin DOMAIN channels
       /\ messages[m].targetId # last.result
       /\ getChannelMessages(messages[m].targetId) = <<m>>
       /\ getById(m) = messages[m]

\* the live channels with a name
liveNamed(chs, n) == {c \in DOMAIN chs : chs[c].name = n}

\* C14: the default-channel bootstrap is idempotent across restarts: after
\* every run of initializeChannels, whatever rows the Store returned, exactly
\* one live channel is named general and exactly one announcements, and a
\* default channel is created exactly when the Store returned no channel of
\* its name.
C14_BootstrapIdempotent ==
  [][initializeChannels
       => \A n \in DefaultNames :
            /\ Cardinality(liveNamed(channels', n)) = 1
            /\ (\E c \in liveNamed(channels', n) : c \notin DOMAIN storeChannels)
                 <=> (liveNamed(storeChannels, n) = {})]_vars

\* the registry holds exactly two channels, general of kind open and
\* announcements of kind broadcast
holdsExactlyDefaults ==
  /\ Cardinality(DOMAIN channels) = 2
  /\ \E g, n \in DOMAIN channels :
       /\ channels[g].name = "general" /\ channels[g].type = "public"
       /\ channels[n].name = "announcements" /\ channels[n].type = "broadcast"

liveChannelMessages(c) ==
  {m \in DOMAIN messages :
     /\ messages[m].targetType = "channel"
     /\ messages[m].targetId = c
     /\ messages[m].deletedAt = Never}

\* the elements of a sequence
Range(seq) == {seq[k] : k \in 1..Len(seq)}

\* C16: getChannelMessages(channelId, limit, beforeId) returns non-deleted
\* messages of the channel, newest first by sentAt, at most limit of them
\* and then the newest ones; when beforeId names a stored message only
\* messages with a strictly earlier sentAt are returned, and when it names
\* none the result is the one without a cursor.
C16_ListingNewestFirstLimitCursor ==
  \A c \in AllChannelIds, limit \in Limits, before \in Cursors :
    LET res  == getChannelMessagesOf(messages, channelMessages, c, limit, before)
        pool == IF before \in DOMAIN messages
                THEN {m \in liveChannelMessages(c) :
                        messages[m].sentAt < messages[before].sentAt}
                ELSE liveChannelMessages(c)
    IN /\ Range(res) \subseteq pool
       /\ \A i, j \in 1..Len(res) : i < j =>
            /\ res[i] # res[j]
            /\ messages[res[i]].sentAt >= messages[res[j]].sentAt
       /\ Len(res) = IF Cardinality(pool) < limit THEN Cardinality(pool) ELSE limit
       /\ \A m \in pool \ Range(res) :
            \A i \in 1..Len(res) : messages[res[i]].sentAt >= messages[m].sentAt
       /\ before \notin DOMAIN messages =>
            res = getChannelMessagesOf(messages, channelMessages, c, limit, None)

\* a channel holds three messages sent at three times, the middle one
\* deleted: the listing is [third, first], a limit of one gives [third], and
\* the deleted one as cursor gives [first]
C16_Witness ==
  /\ last.op = "getChannelMessages"
  /\ \E c \in DOMAIN channelMessages :
       /\ channelMessages[c] = <<"m1", "m2", "m3">>
       /\ messages["m1"].sentAt < messages["m2"].sentAt
       /\ messages["m2"].sentAt < messages["m3"].sentAt
       /\ messages["m2"].deletedAt # Never
       /\ getChannelMessagesOf(messages, channelMessages, c, DefaultLimit, None)
            = <<"m3", "m1">>
       /\ getChannelMessagesOf(messages, channelMessages, c, 1, None) = <<"m3">>
       /\ getChannelMessagesOf(messages, channelMessages, c, DefaultLimit, "m2")
            = <<"m1">>

\* a sequence back to front
Reverse(seq) == [k \in 1..Len(seq) |-> seq[Len(seq) + 1 - k]]

\* the non-deleted messages of a channel in the order they were sent
sentOrder(c) ==
  IF c \in DOMAIN channelMessages
  THEN SelectSeq(channelMessages[c],
                 LAMBDA m : m \in DOMAIN messages /\ messages[m].deletedAt = Never)
  ELSE << >>

\* C17: messages sent to one channel within one clock tick (equal sentAt)
\* are ordered by insertion sequence: for m1..mn sent in that order
\* getChannelMessages returns mn first down to m1, and
\* getChannelMessages(before = id(mk)) returns exactly m(k-1), ..., m1.
C17_SameTickInsertionOrder ==
  \A c \in AllChannelIds :
    LET sent == sentOrder(c)
    IN (\A i, j \in 1..Len(sent) :
          messages[sent[i]].sentAt = messages[sent[j]].sentAt)
         => /\ getChannelMessagesOf(messages, channelMessages, c,
                                     DefaultLimit, None) = Reverse(sent)
            /\ \A k \in 1..Len(sent) :
                 getChannelMessagesOf(messages, channelMessages, c,
                                      DefaultLimit, sent[k])
                   = Reverse(SubSeq(sent, 1, k - 1))

\* search queries
Queries == {<< >>, <<"h">>, <<"H", "I">>, <<"x">>}

\* some listing returns the message: getChannelMessages of a channel,
\* getThreadMessages of a thread, or a search
listed(m) ==
  \/ \E c \in AllChannelIds : m \in Range(getChannelMessages(c))
  \/ \E t \in ThreadIds : m \in Range(getThreadMessages(t))
  \/ \E q \in Queries, c \in AllChannelIds \cup {None}, a \in Agents \cup {None} :
       m \in search(q, c, a)

\* the relay was handed the event that the message was deleted
announcedDeleted(m) ==
  \E k \in 1..Len(relaySent) :
    /\ relaySent[k][1] = "emitRelayEvent"
    /\ relaySent[k][3] = m
    /\ relaySent[k][4] = "deleted"

\* C18: after delete(id, senderId) has returned true the message is
\* soft-deleted: getById(id) returns it with deletedAt set and getCount() is
\* what it was, and from then on no listing (getChannelMessages,
\* getThreadMessages, search) returns it in any later state of the ledger.
C18_SoftDeletedNeverListedAgain ==
  [][/\ \A m \in LedgerIds, a \in Agents :
          (deleteMessage(m, a) /\ last'.result = "true")
            => /\ m \in DOMAIN messages'
               /\ messages'[m].deletedAt # Never
               /\ getCount' = getCount
               /\ announcedDeleted(m)'
     /\ \A m \in LedgerIds : announcedDeleted(m)' => ~listed(m)']_vars

C20_EditReplacesSignature ==
  [][/\ \A m \in DOMAIN messages' :
          /\ verifySignature(m, messages'[m])
          /\ \A t \in Texts :
               t # messages'[m].text
                 => ~verifySignature(m, [messages'[m] EXCEPT !.text = t])
     /\ \A m \in LedgerIds, t \in Texts, a \in Agents :
          (edit(m, t, a) /\ last'.result = "true")
            => /\ messages'[m].text = t
               /\ messages'[m].signature # messages[m].signature]_vars

\* C20 (amended): every message of the ledger verifies after any sequence
\* of send, edit, delete, markDelivered and markRead; a successful edit
\* stores the new text with a signature that verifies and that differs from
\* the one before exactly when the text differs; a message whose text is
\* changed to another text without edit does not verify.
C20_SignaturesVerify ==
  [][/\ \A m \in DOMAIN messages' :
          /\ verifySignature(m, messages'[m])
          /\ \A t \in Texts :
               t # messages'[m].text
                 => ~verifySignature(m, [messages'[m] EXCEPT !.text = t])
     /\ \A m \in LedgerIds, t \in Texts, a \in Agents :
          (edit(m, t, a) /\ last'.result = "true")
            => /\ messages'[m].text = t
               /\ messages'[m].editedAt # Never
               /\ (messages'[m].signature # messages[m].signature)
                    <=> (t # messages[m].text)]_vars

\* a message that was marked read has been edited to another text
C20_Witness ==
  /\ last = Call("edit", "true")
  /\ \E m \in DOMAIN messages :
       /\ messages[m].editedAt # Never
       /\ messages[m].deliveryStatus = "read"
       /\ messages[m].signature # signMessage(m, messages[m].senderId, Hello,
                                               messages[m].sentAt)

\* position of a delivery state in the order sent < delivered < read
deliveryRank(status) ==
  CASE status = "sent" -> 0
    [] status = "delivered" -> 1
    [] status = "read" -> 2

\* C21: the delivery state of a message never moves backwards in the order
\* sent < delivered < read; markDelivered changes it only from sent to
\* delivered, markRead sets it to read from any state, markDelivered on a
\* read message changes nothing, and both leave the ledger as it is and
\* raise nothing for an id the ledger does not hold.
C21_DeliveryStateMonotone ==
  [][/\ \A m \in DOMAIN messages :
          /\ m \in DOMAIN messages'
          /\ deliveryRank(messages'[m].deliveryStatus)
               >= deliveryRank(messages[m].deliveryStatus)
     /\ \A m \in LedgerIds, a \in Agents :
          /\ markDelivered(m, a)
               => /\ last'.result = m
                  /\ IF m \in DOMAIN messages
                        /\ messages[m].deliveryStatus = "sent"
                     THEN messages' =
                            [messages EXCEPT ![m].deliveryStatus = "delivered"]
                     ELSE UNCHANGED messages
          /\ markRead(m, a)
               => /\ last'.result = m
                  /\ IF m \in DOMAIN messages
                     THEN messages' =
                            [messages EXCEPT ![m].deliveryStatus = "read"]
                     ELSE UNCHANGED messages]_vars

\* markDelivered was called on a message that had been read
C21_Witness ==
  \E m \in DOMAIN messages :
    /\ messages[m].deliveryStatus = "read"
    /\ last = Call("markDelivered", m)

\* the offsets at which an @ is followed by a word character
mentionStarts(text) ==
  {p \in 0..(Len(text) - 2) : text[p + 1] = "@" /\ text[p + 2] \in WordChars}

\* the word after the @ at offset p ends after len - 1 characters
wordEndsAt(text, p, len) ==
  /\ len >= 2
  /\ p + len <= Len(text)
  /\ \A j \in 2..len : text[p + j] \in WordChars
  /\ p + len = Len(text) \/ text[p + len + 1] \notin WordChars

\* C22: the mentions of a sent message are, in left-to-right order, one
\* entry per @word token of the text, each with the token's start offset
\* and its length including the @ sign, of type all when the word is exactly
\* all or here and of type agent otherwise; "Hello @all" yields one entry
\* of type all at offset 6 with length 4.
C22_MentionsOfText ==
  /\ extractMentions(<<"H", "e", "l", "l", "o", " ", "@", "a", "l", "l">>)
       = <<[type |-> "all", startIndex |-> 6, length |-> 4]>>
  /\ \A m \in DOMAIN messages :
       LET text == messages[m].text
           ms   == messages[m].mentions
       IN /\ {ms[k].startIndex : k \in 1..Len(ms)} = mentionStarts(text)
          /\ \A k \in 1..(Len(ms) - 1) : ms[k].startIndex < ms[k + 1].startIndex
          /\ \A k \in 1..Len(ms) :
               /\ wordEndsAt(text, ms[k].startIndex, ms[k].length)
               /\ ms[k].type \in {"all", "agent"}
               /\ ms[k].type = "all"
                    <=> SubSeq(text, ms[k].startIndex + 2,
                               ms[k].startIndex + ms[k].length)
                          \in {<<"a", "l", "l">>, <<"h", "e", "r", "e">>}

\* a sent message mentions everyone and, after that, an identity
C22_Witness ==
  \E m \in DOMAIN messages :
    \E j, k \in 1..Len(messages[m].mentions) :
      /\ j < k
      /\ messages[m].mentions[j].type = "all"
      /\ messages[m].mentions[k].type = "agent"

\* C23: a failing Store write or relay dispatch is not propagated to the
\* request that triggered it: send, create, join and leave return their
\* normal result and leave the in-memory maps as they do when the Store
\* and the relay work.
C23_DependencyFailuresNotPropagated ==
  [][/\ \A t \in ChannelTypes, a \in Agents :
          (~createRejected(CurrentRegistry, "dev") /\ create("dev", t, a))
            => LET R == createIn(CurrentRegistry, "dev", t, TRUE)
               IN /\ last'.result = ChannelIdPool[nextChannel + 1]
                  /\ channels' = R.channels
                  /\ nameIndex' = R.nameIndex
                  /\ memberships' = R.memberships
                  /\ UNCHANGED <<messages, channelMessages, threadMessages>>
     /\ \A c \in DOMAIN channels, a \in Agents :
          /\ (~sendDenied("channel", c, a) /\ send("channel", c, None, Hello, a))
               => LET id == MessageIdPool[nextMessage + 1]
                  IN /\ last'.result = id
                     /\ DOMAIN messages' = DOMAIN messages \cup {id}
                     /\ \A m \in DOMAIN messages : messages'[m] = messages[m]
                     /\ messages'[id].text = Hello
                     /\ messages'[id].senderId = a
                     /\ messages'[id].deliveryStatus = "sent"
                     /\ verifySignature(id, messages'[id])
                     /\ channelMessages' = pushIndex(channelMessages, c, id)
                     /\ UNCHANGED <<threadMessages, channels, nameIndex,
                                    memberships>>
          /\ (~joinDenied(c, a) /\ c \in DOMAIN memberships /\ join(c, a))
               => /\ last'.result = "true"
                  /\ memberships' =
                       [memberships EXCEPT ![c] = @ \cup {a}]
                  /\ channels'[c].memberCount = Cardinality(memberships'[c])
                  /\ UNCHANGED <<nameIndex, messages, channelMessages>>
          /\ (c \in DOMAIN memberships /\ leave(c, a))
               => /\ last'.result = "true"
                  /\ memberships' = [memberships EXCEPT ![c] = @ \ {a}]
                  /\ channels'[c].memberCount = Cardinality(memberships'[c])
                  /\ UNCHANGED <<nameIndex, messages, channelMessages>>]_vars

\* with the Store and the relay down a channel was created and a message
\* was sent: neither reached the Store, nothing was written to the relay
C23_Witness ==
  /\ ~storeUp
  /\ ~relayReady
  /\ relaySent = << >>
  /\ last.op = "send"
  /\ last.result \in DOMAIN messages \ DOMAIN storeMessages
  /\ \E c \in DOMAIN channels \ DOMAIN storeChannels : channels[c].name = "dev"

\* C24: every token issued by generateToken expires after it was issued,
\* verifies at any time before its expiresAt (a request that presents it
\* passes the middleware, which yields the claims the token embeds), and is
\* rejected without an error at any time after its expiresAt.
C24_TokenValidUntilExpiry ==
  [][\A t \in issuedTokens :
       /\ t.expiresAt > t.issuedAt
       /\ t.agentId \in Agents /\ t.permissions \in PermissionSets
       /\ clock < t.expiresAt
            => /\ verifyTokenOk(issuedTokens, t, clock)
               /\ authenticatedRequest(t) => last'.result = "next"
       /\ clock > t.expiresAt
            => /\ ~verifyTokenOk(issuedTokens, t, clock)
               /\ authenticatedRequest(t) => last'.result = "401"
               /\ validateToken(t) => last'.result = None]_vars

\* a request with an expired token was refused while another issued token
\* is still valid
C24_Witness ==
  /\ last = Call("request", "401")
  /\ \E t \in issuedTokens : clock > t.expiresAt
  /\ \E t \in issuedTokens : clock < t.expiresAt /\ t.permissions = AdminPermissions

\* the capability sets in use: the ones agents hold and tokens embed
heldCapabilityLists ==
  {agents[a].permissions : a \in DOMAIN agents}
    \cup {t.permissions : t \in issuedTokens}

\* C25: whenever a capability set grants admin on a resource it grants read
\* and write on it; a capability that covers the resource and lists admin
\* grants every action on it.
C25_AdminImpliesReadWrite ==
  \A C \in heldCapabilityLists, r \in Resources :
    /\ checkPermissions(C, r, "admin")
         => checkPermissions(C, r, "read") /\ checkPermissions(C, r, "write")
    /\ \A k \in 1..Len(C) :
         (matchResource(C[k].resource, r) /\ "admin" \in C[k].actions)
           => \A act \in Actions : checkPermissions(C, r, act)

\* a token whose second capability lists admin only was granted write
C25_Witness ==
  /\ last = Call("hasPermission", "true")
  /\ \E t \in issuedTokens :
       /\ Len(t.permissions) = 2
       /\ t.permissions[1].actions = {}
       /\ t.permissions[2].actions = {"admin"}
       /\ checkPermissions(t.permissions, ChannelKind \o <<"g">>, "write")
       /\ ~checkPermissions(t.permissions, <<"x">>, "write")

\* the orderings of a capability list
orderings(C) ==
  {[k \in 1..Len(C) |-> C[f[k]]] :
     f \in {g \in [1..Len(C) -> 1..Len(C)] :
              \A i, j \in 1..Len(C) : g[i] = g[j] => i = j}}

\* C26: a capability set grants an action on a resource exactly when one
\* of its capabilities has a pattern that covers the resource (the same
\* string, a prefix wildcard or the global wildcard) and lists the action
\* or admin; the order of the capabilities does not matter, and a more
\* specific capability without the action does not block a more general one.
C26_AuthorizeExistential ==
  \A C \in heldCapabilityLists, r \in Resources, act \in Actions :
    /\ checkPermissions(C, r, act)
         <=> \E k \in 1..Len(C) :
               /\ \/ C[k].resource = r
                  \/ C[k].resource = Star
                  \/ /\ C[k].resource[Len(C[k].resource)] = "*"
                     /\ \E n \in 0..Len(r) :
                          C[k].resource = SubSeq(r, 1, n) \o Star
               /\ act \in C[k].actions \/ "admin" \in C[k].actions
    /\ \A P \in orderings(C) :
         checkPermissions(P, r, act) = checkPermissions(C, r, act)

\* the exact capability of a token lacks write, the wildcard after it
\* grants write, and the request for write was granted
C26_Witness ==
  /\ last = Call("hasPermission", "true")
  /\ \E t \in issuedTokens :
       /\ Len(t.permissions) = 2
       /\ t.permissions[1] = [resource |-> ChannelKind \o <<"g">>,
                              actions |-> {"read"}]
       /\ t.permissions[2] = [resource |-> ChannelKind \o Star,
                              actions |-> {"write"}]
       /\ checkPermissions(t.permissions, ChannelKind \o <<"g">>, "write")

\* C27: a record that is online, as after connect, turns idle (and the
\* change is broadcast) in a sweep that runs after the idle threshold has
\* passed since its last heartbeat, which the transition leaves as it is;
\* any record is removed, with an offline broadcast of reason timeout, in a
\* sweep that runs after the offline threshold has passed since that last
\* heartbeat; a sweep before the idle threshold changes nothing.
C27_SweepIdleThenTimeout ==
  [][sweep =>
       \A a \in DOMAIN presence :
         LET e == clock - presence[a].lastHeartbeat
         IN /\ e > OfflineThreshold
                 => /\ a \notin DOMAIN presence'
                    /\ PresenceEvent(a, "offline", "timeout") \in presenceSent'
            /\ (e > IdleThreshold /\ e <= OfflineThreshold
                  /\ presence[a].status = "online")
                 => /\ a \in DOMAIN presence'
                    /\ presence'[a] = [presence[a] EXCEPT !.status = "idle"]
                    /\ PresenceEvent(a, "idle", None) \in presenceSent'
            /\ e <= IdleThreshold
                 => a \in DOMAIN presence' /\ presence'[a] = presence[a]]_vars

\* a sweep removed a1 for timeout and left a2 idle
C27_Witness ==
  /\ last = Call("sweep", None)
  /\ PresenceEvent("a1", "offline", "timeout") \in presenceSent
  /\ "a1" \notin DOMAIN presence
  /\ "a2" \in DOMAIN presence /\ presence["a2"].status = "idle"

\* C28: heartbeat on an idle record sets it online and broadcasts the
\* change; on a busy record it leaves the status busy, broadcasts nothing
\* and changes only lastHeartbeat and, if supplied, the active channels;
\* without a record it returns false and creates none.
C28_HeartbeatRestoresIdleKeepsBusy ==
  [][\A a \in Agents, l \in ActiveLists :
       heartbeat(a, l)
         => /\ a \notin DOMAIN presence
                 => /\ last'.result = "false"
                    /\ presence' = presence
                    /\ presenceSent' = {}
            /\ (a \in DOMAIN presence /\ presence[a].status = "idle")
                 => /\ last'.result = "true"
                    /\ presence'[a].status = "online"
                    /\ presence'[a].lastHeartbeat = clock
                    /\ presenceSent' = {PresenceEvent(a, "online", None)}
            /\ (a \in DOMAIN presence /\ presence[a].status = "busy")
                 => /\ last'.result = "true"
                    /\ presence' =
                         [presence EXCEPT
                            ![a].lastHeartbeat = clock,
                            ![a].activeChannels = IF l = None THEN @ ELSE l]
                    /\ presenceSent' = {}]_vars

\* a heartbeat restored an idle record to online while another is busy
C28_Witness ==
  /\ last = Call("heartbeat", "true")
  /\ \E a \in DOMAIN presence :
       /\ presenceSent = {PresenceEvent(a, "online", None)}
       /\ presence[a].status = "online"
  /\ \E b \in DOMAIN presence :
       presence[b].status = "busy" /\ presence[b].lastHeartbeat > 0

\* C29: in every interleaving of the sweep with heartbeat, connect and
\* disconnect, a record is removed for timeout only when its lastHeartbeat
\* is older than the offline threshold; heartbeat and connect set
\* lastHeartbeat to now and no step moves it back, so it is never older
\* than the most recent heartbeat or connect; a heartbeat between the
\* thresholds sets an idle record online again.
C29_NoTimeoutAfterFreshHeartbeat ==
  [][/\ \A a \in DOMAIN presence :
          /\ PresenceEvent(a, "offline", "timeout") \in presenceSent'
               => /\ clock - presence[a].lastHeartbeat > OfflineThreshold
                  /\ a \notin DOMAIN presence'
          /\ (a \notin DOMAIN presence' /\ last'.op # "restart")
               => \/ PresenceEvent(a, "offline", "timeout") \in presenceSent'
                  \/ PresenceEvent(a, "offline", "graceful") \in presenceSent'
          /\ a \in DOMAIN presence'
               => presence'[a].lastHeartbeat >= presence[a].lastHeartbeat
     /\ \A a \in Agents :
          /\ connect(a) => presence'[a].lastHeartbeat = clock
          /\ \A l \in ActiveLists :
               (a \in DOMAIN presence /\ heartbeat(a, l))
                 => /\ presence'[a].lastHeartbeat = clock
                    /\ presence'[a].status # "idle"]_vars

\* a sweep later than the offline threshold after time 0 found a record
\* whose heartbeat had arrived past the idle threshold, and kept it
C29_Witness ==
  /\ last = Call("sweep", None)
  /\ clock > OfflineThreshold
  /\ \E a \in DOMAIN presence :
       /\ presence[a].status = "online"
       /\ presence[a].activeChannels = <<"ch1">>
       /\ presence[a].lastHeartbeat > IdleThreshold

\* the Store holds the message as the ledger has it
storedAsHeld(m) ==
  /\ m \in DOMAIN storeMessages'
  /\ storeMessages'[m].text = messages'[m].text
  /\ storeMessages'[m].signature = messages'[m].signature
  /\ storeMessages'[m].editedAt = messages'[m].editedAt
  /\ storeMessages'[m].deletedAt = messages'[m].deletedAt
  /\ storeMessages'[m].deliveryStatus = messages'[m].deliveryStatus

\* C30: with a Store that does not fail, every committing operation of the
\* ledger (send, edit, delete, markDelivered, markRead) writes the affected
\* message to the Store: after it the stored record equals the in-memory
\* message in text, signature, editedAt, deletedAt and delivery state.
C30_StoreFollowsLedger ==
  [][storeUp =>
       \A m \in LedgerIds, a \in Agents :
         /\ (\E c \in AllChannelIds, t \in Texts :
               send("channel", c, None, t, a) /\ last'.result = m)
              => storedAsHeld(m)
         /\ (\E t \in Texts : edit(m, t, a) /\ last'.result = "true")
              => storedAsHeld(m)
         /\ (deleteMessage(m, a) /\ last'.result = "true") => storedAsHeld(m)
         /\ (m \in DOMAIN messages /\ markDelivered(m, a)) => storedAsHeld(m)
         /\ (m \in DOMAIN messages /\ markRead(m, a)) => storedAsHeld(m)]_vars

\* ------------------------------------------------------------------ C31

\* the channels the next startup's loadFromStorage builds from the Store
reloadedChannels ==
  loadFromStorage(Registry(Empty, Empty, Empty, storeChannels, nextChannel),
                  TRUE).channels

\* C31: access decisions survive persistence: when the process stops, every
\* channel that is live and has a Store row gives, once loaded again at the
\* next startup, the same checkAccess result as it gave before, for every
\* identity and level; a private channel without rules still denies read.
C31_AccessSurvivesReload ==
  [][Restart =>
       \A c \in (DOMAIN channels) \cap (DOMAIN storeChannels),
          i \in Identities, l \in AccessLevels :
            checkAccessIn(reloadedChannels, c, i, l)
              = checkAccessIn(channels, c, i, l)]_vars

\* ------------------------------------------------------------------ C32

\* the non-deleted rows the Store holds for a channel that the message map
\* does not hold
storedNotLoaded(c) ==
  {id \in DOMAIN storeMessages :
     /\ storeMessages[id].targetId = c
     /\ storeMessages[id].deletedAt = Never
     /\ id \notin DOMAIN messages}

\* C32: after a restart, a getChannelMessages read of a channel whose
\* persisted, non-deleted messages are not yet in memory starts a load of
\* that channel from the Store (so that later reads return them), whether
\* or not a new message was sent to the channel before the read.
C32_ReadTriggersLoad ==
  [][\A c \in AllChannelIds, l \in {1, DefaultLimit} :
       (/\ restarts > 0
        /\ storedNotLoaded(c) # {}
        /\ getChannelMessagesRequest(c, l, None))
         => <<c, l>> \in pendingLoads']_vars

\* ------------------------------------------------------------------ C33

\* no element occurs twice in seq
noRepeat(seq) == \A i, j \in 1..Len(seq) : i # j => seq[i] # seq[j]

\* C33: under any interleaving of sends, getChannelMessages reads and
\* completions of Store loads (several loads of one channel in flight
\* included), each message id occurs at most once in a channel's index and
\* at most once in a thread's index, and every indexed id is a key of the
\* message map.
C33_IndexesDuplicateFree ==
  /\ \A c \in DOMAIN channelMessages :
       /\ noRepeat(channelMessages[c])
       /\ Range(channelMessages[c]) \subseteq DOMAIN messages
  /\ \A t \in DOMAIN threadMessages :
       /\ noRepeat(threadMessages[t])
       /\ Range(threadMessages[t]) \subseteq DOMAIN messages

\* after a restart two loads of #general were in flight at once; one has
\* completed and filled the channel's and the thread's index while the
\* other is still to come
C33_Witness ==
  /\ restarts > 0
  /\ last.op = "loadChannelMessagesFromStorage"
  /\ pendingLoads # {}
  /\ "ch1" \in DOMAIN channelMessages
  /\ Len(channelMessages["ch1"]) = MaxLedger
  /\ "t1" \in DOMAIN threadMessages
  /\ Len(threadMessages["t1"]) >= 2

\* ------------------------------------------------------------------ C34

\* the Store's record of m equals the message the ledger holds in text,
\* signature, delivery state, editedAt and deletedAt
readsBackAsSaved(m) ==
  LET row == getMessageById(storeMessages', m)
  IN /\ m \in DOMAIN storeMessages'
     /\ row.text = messages[m].text
     /\ row.signature = messages[m].signature
     /\ row.deliveryStatus = messages[m].deliveryStatus
     /\ row.editedAt = messages[m].editedAt
     /\ row.deletedAt = messages[m].deletedAt

\* C34: saveMessage is an upsert keyed by message id: after saveMessage(m)
\* getMessageById(m.id) returns a record equal to m in content, signature,
\* delivery state, editedAt and deletedAt, whether or not a row with that
\* id existed before.
C34_SaveMessageUpserts ==
  [][\A m \in LedgerIds : saveMessageRequest(m) => readsBackAsSaved(m)]_vars

\* ------------------------------------------------------------------ C35

\* C35: for every message in the ledger the stored mentions list equals the
\* mentions extracted from the message's current text, after send and after
\* any number of edits.
C35_MentionsFollowText ==
  \A m \in DOMAIN messages :
    messages[m].mentions = extractMentions(messages[m].text)

\* ------------------------------------------------------------------ C36

\* C36: in every reachable state every identity in a live channel's
\* membership set passes checkAccess(channel, identity, read): members come
\* in through join's access check only, and no later addAccessRule or
\* update takes read access away from a member.
C36_MembersCanRead ==
  \A c \in DOMAIN channels :
    \A i \in getMembers(c) : checkAccess(c, i, "read")

\* a1 joined a direct channel through its default access, and then a rule
\* naming a1 was added to the channel
C36_Witness ==
  /\ last = Call("addAccessRule", "true")
  /\ \E c \in DOMAIN channels :
       /\ channels[c].type = "direct"
       /\ "a1" \in getMembers(c)
       /\ channels[c].accessRules
            = << [principal |-> "a1", principalType |-> "agent", level |-> "read"] >>

\* ------------------------------------------------------------------ C37

\* C37: with reconnect enabled and fewer than maxReconnectAttempts attempts
\* used, an unexpected socket close moves the client to BACKOFF, and when
\* the backoff delay has elapsed (stop() not having been called) the client
\* starts a new connection attempt (state CONNECTING), from which a WELCOME
\* of the daemon leads to READY.
C37_ReconnectAfterBackoff ==
  [][/\ (/\ socketClose
         /\ relayClient.state = "READY"
         /\ ~relayClient.reconnectTimer
         /\ relayClient.reconnectAttempts < MaxReconnectAttempts)
          => relayClient'.state = "BACKOFF"
     /\ (/\ reconnectTimeout
         /\ relayClient.state = "BACKOFF"
         /\ ~relayClient.stopped)
          => relayClient'.state = "CONNECTING"
     /\ (welcomeFrame /\ relayClient.state = "HANDSHAKING")
          => relayClient'.state = "READY"]_vars

\* ------------------------------------------------------------------ C38

\* C38: after stop() has resolved the client's state is DISCONNECTED with
\* no reconnect timer pending, and it stays so until start() is called
\* again, in every ordering of events, the closed socket's 'close' event
\* arriving after stop() returned included.
C38_StoppedStaysDisconnected ==
  relayClient.stopped =>
    /\ relayClient.state = "DISCONNECTED"
    /\ ~relayClient.reconnectTimer

\* ------------------------------------------------------------------ C39

\* the envelope types of the operations the claim lists
GuardedTypes == {"SEND", "CHANNEL_JOIN", "CHANNEL_LEAVE", "CHANNEL_MESSAGE",
                 "SUBSCRIBE", "UNSUBSCRIBE"}

\* a step of one of the operations that write such an envelope
writingOperation ==
  \/ sendMessage
  \/ sendChannelMessage
  \/ joinChannel("general")
  \/ leaveChannel("general")
  \/ subscribe("events")
  \/ unsubscribe("events")
  \/ sendWithAck

\* C39: the relay client writes a SEND, CHANNEL_JOIN, CHANNEL_LEAVE,
\* CHANNEL_MESSAGE, SUBSCRIBE or UNSUBSCRIBE envelope to the socket only
\* while its state is READY; in every other state these operations write
\* nothing and report failure (false, or a rejection for sendWithAck).
C39_WritesOnlyWhenReady ==
  [][/\ (/\ Len(relayClient'.written) > Len(relayClient.written)
         /\ relayClient'.written[Len(relayClient'.written)] \in GuardedTypes)
          => relayClient.state = "READY"
     /\ (writingOperation /\ relayClient.state # "READY")
          => /\ relayClient'.written = relayClient.written
             /\ last'.result \in {"false", "rejected"}]_vars

\* ------------------------------------------------------------------ C40

\* the envelopes of the frames the daemon wrote, in stream order
decodedBodies ==
  [k \in 1..Len(framing.bodies) |-> JsonParse(framing.bodies[k])]

\* C40: for a stream that is a concatenation of well-formed frames (4-byte
\* big-endian length, then that many bytes of JSON, within MAX_FRAME_BYTES)
\* and any way of cutting it into chunks passed to feed, onFrame is invoked
\* exactly once per frame, in stream order, with the frame's decoded
\* envelope: what was delivered is always a prefix of the envelopes written,
\* without an error, nothing is delivered before its last byte has arrived,
\* and when every byte has been fed every envelope has been delivered.
C40_OneFramePerEnvelope ==
  /\ framing.errors = 0
  /\ Len(framing.frames) <= Len(decodedBodies)
  /\ framing.frames = SubSeq(decodedBodies, 1, Len(framing.frames))
  /\ (framing.wire = << >>) => framing.frames = decodedBodies
  /\ (framing.buffer # << >> \/ framing.expectedLength # Never)
       => Len(framing.frames) < Len(decodedBodies)

\* the first frame has been delivered and a chunk ended inside the body of
\* the last one, whose remaining bytes are still on the wire
C40_Witness ==
  /\ Len(framing.bodies) = MaxFrames
  /\ Len(framing.frames) = MaxFrames - 1
  /\ framing.expectedLength = At(MaxBodyLen)
  /\ Len(framing.buffer) = MaxBodyLen - 1
  /\ Len(framing.wire) = 1

====
